---- MODULE Spec2Model ----
(***************************************************************************)
(* A model of neon-saber: the slash validator (src/utils/slashValidator.ts),*)
(* the pattern generator, and the game loop of App.tsx / GameScene.tsx.     *)
(*                                                                          *)
(* Units.  The source computes in IEEE doubles; the model computes in       *)
(* integers on fixed grids:                                                 *)
(*   velocities   tenths of a unit per second      (3.0 u/s  = 30)          *)
(*   speeds       thousandths of a unit per second (3.0 u/s  = 3000)        *)
(*   positions    hundredths of a unit             (1.0 u    = 100)         *)
(*   angles       thousandths of a degree          (45 deg   = 45000)       *)
(*   accuracies   1/45000                          (1.0      = 45000)       *)
(*   multipliers  tenths                           (1.2      = 12)          *)
(*   time         1/800 of a second                (2.5 s    = 2000)        *)
(* Rounding of doubles is not modelled, with one exception: where the exact *)
(* angle is 45 degrees the double the source compares with the tolerance is *)
(* 45 or the next double above it, depending on the magnitudes (velocity    *)
(* (3,3,0) against UP gives 45.0, (5,5,0) gives 45.00000000000001); the     *)
(* model takes that outcome as an input, fp \in {0, 1}.  Elsewhere the      *)
(* double the source returns for an angle is within 2e-6 degrees of the     *)
(* exact angle, which is far below the grid of the angles.                  *)
(*                                                                          *)
(* Specifications.  SpecScore, SpecClassify, SpecAngle and SpecAverage call *)
(* the pure functions of the slash validator on bounded inputs; SpecFilter, *)
(* SpecPattern, SpecIntensity and SpecEvents call generateFromBeatMap.      *)
(* SpecBuffer calls analyzeAudioBuffer, SpecDetector is a BeatDetector that *)
(* is connected and asked to analyze frames.  SpecHands is handleHandUpdate *)
(* called again and again, SpecSaber the same with the frames of the two    *)
(* sabers in between.  SpecApp is the game as App.tsx renders it: GameScene *)
(* gets neither audioElement nor streak.  Spec is the same game in a host   *)
(* that passes GameScene every prop it declares; SpecScene is that host     *)
(* with or without a song, SpecStart the game with startGame called during  *)
(* play.  SpecCube is one DirectionalCube through its frames, SpecHits the  *)
(* hits and misses of a session through the handlers of App.  SpecMusic and *)
(* SpecPreview are an Audio8Bit object with the timers of its loops: the    *)
(* background music and the track preview.  SpecCountdown is the countdown  *)
(* of App with its interval timers, FairCountdown the same with the         *)
(* interval firing as long as it is armed.                                  *)
(***************************************************************************)
EXTENDS Integers, Sequences, FiniteSets, TLC

VARIABLES
    probe,          \* functions on their own: the arguments of the last call
    called,         \* functions on their own: a call has been made
    result,         \* functions on their own: what the last call returned or
                    \* left behind
    \* App.tsx
    gameState, score, streak, maxStreak, perfectHits, totalHits,
    currentSong,    \* an index of SONGS
    timeLeft, difficulty,
    timerArmed,     \* timerIntervalRef holds a running interval
    sinceTick,      \* time since the interval was set or last fired
    audioPlaying,   \* audioRef.current is playing
    audioTime,      \* audioRef.current.currentTime
    \* GameScene.tsx
    wired,          \* the host passes GameScene the props audioElement and
                    \* streak, which GameSceneProps declares
    shown,          \* the gameState and streak of the last render: what the
                    \* props and the closures of the frame callbacks hold
    generator,      \* the PatternGenerator singleton
    spawnEvents,    \* spawnEventsRef.current
    nextSpawnIndex, \* nextSpawnIndexRef.current, counted from 0
    cubes,          \* CubeManager's cubes state, every queued update applied
    mounted,        \* the DirectionalCube instances of the last render
    \* history
    session,        \* the number of calls of startGame
    cleared,        \* the last startGame found instances mounted
    log,            \* the onHit / onMiss calls since the last startGame, in
                    \* order
    materialized    \* the indexes of the SpawnEvents turned into cubes since
                    \* the last startGame, in order

scoreVars == <<probe, called, result>>

appVars ==
    <<gameState, score, streak, maxStreak, perfectHits, totalHits,
      currentSong, timeLeft, difficulty, timerArmed, sinceTick, audioPlaying,
      audioTime>>

sceneVars ==
    <<wired, shown, generator, spawnEvents, nextSpawnIndex, cubes, mounted>>

historyVars == <<session, cleared, log, materialized>>

vars == <<scoreVars, appVars, sceneVars, historyVars>>

-----------------------------------------------------------------------------
(* Arithmetic helpers *)

Abs(n) == IF n < 0 THEN -n ELSE n

Min(a, b) == IF a < b THEN a ELSE b

Max(a, b) == IF a > b THEN a ELSE b

Sign(n) == IF n > 0 THEN 1 ELSE IF n < 0 THEN -1 ELSE 0

RECURSIVE SqrtSearch(_, _, _)
\* the largest r in lo..hi with r*r <= n (lo*lo <= n < (hi+1)*(hi+1))
SqrtSearch(n, lo, hi) ==
    IF lo >= hi THEN lo
    ELSE LET mid == (lo + hi + 1) \div 2
         IN  IF mid * mid <= n THEN SqrtSearch(n, mid, hi)
                               ELSE SqrtSearch(n, lo, mid - 1)

\* Math.sqrt, rounded down to the grid
Sqrt(n) == SqrtSearch(n, 0, 40000)

\* Math.round: the nearest integer to num/den, halves rounded up (den > 0)
Round(num, den) == (2 * num + den) \div (2 * den)

\* Math.atan of the eighths 0/8 .. 8/8, in thousandths of a degree
AtanEighth(k) ==
    CASE k = 0 -> 0
      [] k = 1 -> 7125
      [] k = 2 -> 14036
      [] k = 3 -> 20556
      [] k = 4 -> 26565
      [] k = 5 -> 32005
      [] k = 6 -> 36870
      [] k = 7 -> 41186
      [] k = 8 -> 45000

\* atan(p/q) for 0 <= p <= q, q > 0, in thousandths of a degree: the nearest
\* eighth k/8 from the table, plus atan u = u - u^3/3 of the remainder
\* u = (p/q - k/8) / (1 + (p/q)(k/8)), |u| <= 1/16, computed in 1e-5 radians.
Atan(p, q) ==
    LET k   == (8 * p + q \div 2) \div q
        n   == 8 * p - k * q
        d   == 8 * q + k * p
        u   == (Abs(n) * 100000) \div d
        u3  == (((u * u) \div 100000) * u) \div 300000
        rad == Sign(n) * (u - u3)
    IN  AtanEighth(k) + Round(rad * 57296, 100000)

\* Math.acos of the dot product of two unit vectors, in thousandths of a
\* degree, from the two vectors' dot and cross products (any common scale):
\* the angle in [0, 180] whose cosine is dot/sqrt(dot^2 + cross^2).
Acos(dot, cross) ==
    LET c == Abs(cross)
        a == Abs(dot)
        acute == IF c <= a THEN Atan(c, a) ELSE 90000 - Atan(a, c)
    IN  IF dot > 0 THEN acute
        ELSE IF dot = 0 THEN 90000
        ELSE 180000 - acute

-----------------------------------------------------------------------------
(* types.ts, constants.ts *)

SlashDirection ==
    {"UP", "DOWN", "LEFT", "RIGHT",
     "UP_LEFT", "UP_RIGHT", "DOWN_LEFT", "DOWN_RIGHT", "ANY"}

\* thousandths
DIRECTION_VECTORS(d) ==
    CASE d = "UP"         -> [x |-> 0,    y |-> 1000]
      [] d = "DOWN"       -> [x |-> 0,    y |-> -1000]
      [] d = "LEFT"       -> [x |-> -1000, y |-> 0]
      [] d = "RIGHT"      -> [x |-> 1000, y |-> 0]
      [] d = "UP_LEFT"    -> [x |-> -707, y |-> 707]
      [] d = "UP_RIGHT"   -> [x |-> 707,  y |-> 707]
      [] d = "DOWN_LEFT"  -> [x |-> -707, y |-> -707]
      [] d = "DOWN_RIGHT" -> [x |-> 707,  y |-> -707]
      [] d = "ANY"        -> [x |-> 0,    y |-> 0]

MIN_SLASH_VELOCITY == 30        \* 3.0 units/s, in tenths

DIRECTION_TOLERANCE == 45       \* degrees

MAX_ANGLE_SCORE == 70

MAX_SPEED_SCORE == 15

MAX_POSITION_SCORE == 15

PERFECT_THRESHOLD == 90         \* 0.9, in hundredths

HIT_THRESHOLD == 100            \* 1.0 unit, in hundredths

COMBO_MULTIPLIER_STEP == 10

MAX_COMBO_MULTIPLIER == 8

\* one whole (an accuracy of 1.0), in the accuracies' unit of 1/45000
One == DIRECTION_TOLERANCE * 1000

Vec(x, y, z) == [x |-> x, y |-> y, z |-> z]

\* Vector3.multiplyScalar
Scale(k, v) == Vec(k * v.x, k * v.y, k * v.z)

\* Vector3.length of a velocity, in thousandths of a unit per second, rounded
\* down
Length(v) == Sqrt(10000 * (v.x * v.x + v.y * v.y + v.z * v.z))

-----------------------------------------------------------------------------
(* src/utils/slashValidator.ts *)

diagonalThreshold == 4          \* 0.4, in tenths

velocityToDirection(velocity) ==
    LET x == velocity.x
        y == velocity.y
        absX == Abs(x)
        absY == Abs(y)
        cardinal == IF absY > absX THEN (IF y > 0 THEN "UP" ELSE "DOWN")
                    ELSE (IF x > 0 THEN "RIGHT" ELSE "LEFT")
    IN  IF absX > diagonalThreshold /\ absY > diagonalThreshold
        THEN IF y > 0 /\ x > 0 THEN "UP_RIGHT"
             ELSE IF y > 0 /\ x < 0 THEN "UP_LEFT"
             ELSE IF y < 0 /\ x > 0 THEN "DOWN_RIGHT"
             ELSE IF y < 0 /\ x < 0 THEN "DOWN_LEFT"
             ELSE cardinal
        ELSE cardinal

\* a slash angle without the check of the projection's length: normalize()
\* leaves the zero vector zero, the dot product is 0 and the angle 90 degrees
calculateSlashAngleUnchecked(velocity, requiredDirection, fp) ==
    IF requiredDirection = "ANY" THEN 0
    ELSE
      LET dirVec == DIRECTION_VECTORS(requiredDirection)
          rx == Sign(dirVec.x)
          ry == Sign(dirVec.y)
          sx == velocity.x
          sy == velocity.y
          dot == rx * sx + ry * sy
          cross == rx * sy - ry * sx
      IN  IF dot > 0 /\ Abs(cross) = dot
          THEN DIRECTION_TOLERANCE * 1000 + fp
          ELSE Acos(dot, cross)

\* The angle between the velocity's XY projection and the required direction.
\* normalize() only rescales, so the angle is taken from the dot and cross
\* products of the unnormalized vectors.  fp: see the module comment.
calculateSlashAngle(velocity, requiredDirection, fp) ==
    IF requiredDirection = "ANY" THEN 0
    ELSE
      LET dirVec == DIRECTION_VECTORS(requiredDirection)
          \* the direction of requiredVec after normalize()
          rx == Sign(dirVec.x)
          ry == Sign(dirVec.y)
          sx == velocity.x
          sy == velocity.y
          dot == rx * sx + ry * sy
          cross == rx * sy - ry * sx
      IN  \* slashVec.length() < 0.001, velocities being tenths
          IF 10000 * (sx * sx + sy * sy) < 1 THEN 180000
          ELSE IF dot > 0 /\ Abs(cross) = dot
               THEN DIRECTION_TOLERANCE * 1000 + fp
          ELSE Acos(dot, cross)

\* the result of both rejections
NoHit ==
    [hit |-> FALSE, score |-> 0, angleAccuracy |-> 0, speedBonus |-> 0,
     positionAccuracy |-> 0, perfectHit |-> FALSE]

\* a speed check that lets slashes of 2.0 units/s and more through
tooSlowBelowTwo(speed) == speed < MIN_SLASH_VELOCITY * 100 - 1000

\* speed < GAME_CONFIG.MIN_SLASH_VELOCITY, speed in thousandths
tooSlow(speed) == speed < MIN_SLASH_VELOCITY * 100

\* a direction check that accepts everything short of a right angle
directionValidToRightAngle(angle) == angle < 2 * DIRECTION_TOLERANCE * 1000

\* angle <= GAME_CONFIG.DIRECTION_TOLERANCE
directionValid(angle) == angle <= DIRECTION_TOLERANCE * 1000

\* a combo multiplier without the cap
multiplierUncapped(aStreak) == 10 + aStreak \div COMBO_MULTIPLIER_STEP

\* a combo multiplier that gains a whole step every COMBO_MULTIPLIER_STEP hits
multiplierWholeSteps(aStreak) ==
    10 + Min(10 * (aStreak \div COMBO_MULTIPLIER_STEP),
             (MAX_COMBO_MULTIPLIER - 1) * 10)

\* the combo multiplier, in tenths
multiplier(aStreak) ==
    10 + Min(aStreak \div COMBO_MULTIPLIER_STEP, (MAX_COMBO_MULTIPLIER - 1) * 10)

\* a perfect flag that also asks for full speed
isPerfectAtFullSpeed(angleAccuracy, positionAccuracy, speedAccuracy) ==
    /\ 100 * angleAccuracy >= PERFECT_THRESHOLD * One
    /\ 100 * positionAccuracy >= PERFECT_THRESHOLD * One
    /\ 100 * speedAccuracy >= PERFECT_THRESHOLD * One

\* the perfect flag; the speed accuracy is in scope in the source and not used
isPerfect(angleAccuracy, positionAccuracy, speedAccuracy) ==
    /\ 100 * angleAccuracy >= PERFECT_THRESHOLD * One
    /\ 100 * positionAccuracy >= PERFECT_THRESHOLD * One

calculateHitScore(slashVelocity, requiredDirection, hitDistance, aStreak, fp) ==
    LET speed == Length(slashVelocity)
        angle == calculateSlashAngle(slashVelocity, requiredDirection, fp)
        angleAccuracy == Max(0, One - angle)
        angleScore == angleAccuracy * MAX_ANGLE_SCORE
        speedAccuracy ==
            Min((speed * One) \div (MIN_SLASH_VELOCITY * 100 * 3), One)
        speedScore == speedAccuracy * MAX_SPEED_SCORE
        maxDistance == HIT_THRESHOLD
        positionAccuracy ==
            Max(0, One - (hitDistance * One) \div maxDistance)
        positionScore == positionAccuracy * MAX_POSITION_SCORE
        baseScore == angleScore + speedScore + positionScore
        finalScore == Round(baseScore * multiplier(aStreak), One * 10)
    IN  IF tooSlow(speed) THEN NoHit
        ELSE IF ~directionValid(angle) /\ requiredDirection # "ANY" THEN NoHit
        ELSE [hit |-> TRUE, score |-> finalScore,
              angleAccuracy |-> angleAccuracy, speedBonus |-> speedAccuracy,
              positionAccuracy |-> positionAccuracy,
              perfectHit |->
                  isPerfect(angleAccuracy, positionAccuracy, speedAccuracy)]

-----------------------------------------------------------------------------
(* constants.ts: songs, grid and timing.  Times are in 1/800 s, the unit in *)
(* which the beat intervals of the three songs are whole.                   *)

\* one second, in time units
Second == 8 * 100

CUBE_SPEED == 12

SPAWN_Z == -30

DESPAWN_Z == 5

COLUMN_SPACING == 90            \* 0.9, in hundredths

ROW_SPACING == 70               \* 0.7, in hundredths

GRID_OFFSET_X == -135           \* -1.35, in hundredths

GRID_OFFSET_Y == 40             \* 0.4, in hundredths

DOUBLE_BLOCK_CHANCE == 20       \* 0.2, in hundredths

\* bpm and duration (seconds) of SONGS; no song has a beatMap
SONGS ==
    <<[bpm |-> 100, duration |-> 60],
      [bpm |-> 128, duration |-> 60],
      [bpm |-> 150, duration |-> 60]>>

-----------------------------------------------------------------------------
(* patternGenerator.ts.  Math.random() is an input: every call site has its *)
(* own draw, in hundredths (a draw r stands for a value in [r/100,          *)
(* (r+1)/100)), collected in one record per beat.                           *)

DrawSlots ==
    {"double", "left", "colA", "colB", "rowA", "rowB", "dir",
     "mirrored", "lcol", "rcol", "rrowA", "rrowB", "rdir"}

MaxBeats == 6       \* beat maps are cut to their first MaxBeats beats

\* the state of a PatternGenerator after construction and after reset()
reset ==
    [lastLeftDirection |-> "DOWN", lastRightDirection |-> "DOWN",
     lastLeftColumn |-> 0, lastRightColumn |-> 3,
     lastLeftRow |-> 1, lastRightRow |-> 1, spawnId |-> 0]

getFlowDirection(lastDir, row, isLeft, r) ==
    LET side == IF isLeft THEN "LEFT" ELSE "RIGHT"
        byRow ==
            IF row = 0
            THEN <<"DOWN", "DOWN", "DOWN", "DOWN_LEFT", "DOWN_RIGHT", side>>
            ELSE IF row = 2
            THEN <<"UP", "UP", "UP", "UP_LEFT", "UP_RIGHT", side>>
            ELSE <<"DOWN", "DOWN", "UP", side, "DOWN_LEFT", "DOWN_RIGHT">>
        directionPool ==
            IF lastDir = "DOWN" THEN byRow \o <<"UP", "UP">>
            ELSE IF lastDir = "UP" THEN byRow \o <<"DOWN", "DOWN">>
            ELSE byRow
    IN  directionPool[(r * Len(directionPool)) \div 100 + 1]

\* a mirror that reflects nothing
getMirroredDirectionSame(dir) == dir

getMirroredDirection(dir) ==
    CASE dir = "UP"         -> "UP"
      [] dir = "DOWN"       -> "DOWN"
      [] dir = "LEFT"       -> "RIGHT"
      [] dir = "RIGHT"      -> "LEFT"
      [] dir = "UP_LEFT"    -> "UP_RIGHT"
      [] dir = "UP_RIGHT"   -> "UP_LEFT"
      [] dir = "DOWN_LEFT"  -> "DOWN_RIGHT"
      [] dir = "DOWN_RIGHT" -> "DOWN_LEFT"
      [] dir = "ANY"        -> "ANY"

\* a next column that is not held between minCol and maxCol
getNextColumnUnclamped(lastColumn, minCol, maxCol, rA, rB) ==
    lastColumn + (IF rA < 70 THEN 0 ELSE IF rB < 50 THEN -1 ELSE 1)

getNextColumn(lastColumn, minCol, maxCol, rA, rB) ==
    LET delta == IF rA < 70 THEN 0 ELSE IF rB < 50 THEN -1 ELSE 1
    IN  Max(minCol, Min(maxCol, lastColumn + delta))

getNextRow(lastRow, rA, rB) ==
    IF rA < 50 THEN 1
    ELSE IF rA < 75 THEN lastRow
    ELSE (rB * 3) \div 100

\* x, y and z in hundredths
gridToPosition(column, row) ==
    Vec(GRID_OFFSET_X + column * COLUMN_SPACING,
        GRID_OFFSET_Y + row * ROW_SPACING,
        SPAWN_Z * 100)

\* a CubeData; ids are the numbers n of `cube-${n}`
CubeData(id, color, time, direction, row, column) ==
    [id |-> id, position |-> gridToPosition(column, row), color |-> color,
     spawnTime |-> time, direction |-> direction, row |-> row,
     column |-> column]

\* a single cube that takes its id and leaves spawnId as it is
generateSingleCubeSameId(g, time, color, side, r) ==
    LET isLeft == side = "left"
        column == IF isLeft
                  THEN getNextColumn(g.lastLeftColumn, 0, 1, r.colA, r.colB)
                  ELSE getNextColumn(g.lastRightColumn, 2, 3, r.colA, r.colB)
        row == getNextRow(IF isLeft THEN g.lastLeftRow ELSE g.lastRightRow,
                          r.rowA, r.rowB)
        direction ==
            getFlowDirection(IF isLeft THEN g.lastLeftDirection
                                       ELSE g.lastRightDirection,
                             row, isLeft, r.dir)
        updated ==
            IF isLeft
            THEN [g EXCEPT !.lastLeftColumn = column, !.lastLeftRow = row,
                           !.lastLeftDirection = direction]
            ELSE [g EXCEPT !.lastRightColumn = column, !.lastRightRow = row,
                           !.lastRightDirection = direction]
    IN  [generator |-> updated,
         cubes |-> <<CubeData(g.spawnId, color, time, direction, row, column)>>]

\* the generator after the call, and the cube
generateSingleCube(g, time, color, side, r) ==
    LET isLeft == side = "left"
        column == IF isLeft
                  THEN getNextColumn(g.lastLeftColumn, 0, 1, r.colA, r.colB)
                  ELSE getNextColumn(g.lastRightColumn, 2, 3, r.colA, r.colB)
        row == getNextRow(IF isLeft THEN g.lastLeftRow ELSE g.lastRightRow,
                          r.rowA, r.rowB)
        direction ==
            getFlowDirection(IF isLeft THEN g.lastLeftDirection
                                       ELSE g.lastRightDirection,
                             row, isLeft, r.dir)
        updated ==
            IF isLeft
            THEN [g EXCEPT !.lastLeftColumn = column, !.lastLeftRow = row,
                           !.lastLeftDirection = direction]
            ELSE [g EXCEPT !.lastRightColumn = column, !.lastRightRow = row,
                           !.lastRightDirection = direction]
    IN  [generator |-> [updated EXCEPT !.spawnId = g.spawnId + 1],
         cubes |-> <<CubeData(g.spawnId, color, time, direction, row, column)>>]

\* a pair of cubes that are both for the left side
generateDoubleOneSide(g, time, r) ==
    LET first == generateSingleCube(g, time, "orange", "left", r)
        second == generateSingleCube(first.generator, time, "orange", "left",
                                     r)
    IN  [generator |-> second.generator,
         cubes |-> first.cubes \o second.cubes]

\* the generator after the call, and the two cubes
generateDoubleCubes(g, time, r) ==
    LET isMirrored == r.mirrored < 60
        leftColumn == IF r.lcol < 50 THEN 0 ELSE 1
        leftRow == getNextRow(g.lastLeftRow, r.rowA, r.rowB)
        leftDirection ==
            getFlowDirection(g.lastLeftDirection, leftRow, TRUE, r.dir)
        rightColumn == IF r.rcol < 50 THEN 2 ELSE 3
        rightRow == IF isMirrored THEN leftRow
                    ELSE getNextRow(g.lastRightRow, r.rrowA, r.rrowB)
        rightDirection ==
            IF isMirrored THEN getMirroredDirection(leftDirection)
            ELSE getFlowDirection(g.lastRightDirection, rightRow, FALSE,
                                  r.rdir)
    IN  [generator |->
            [lastLeftDirection |-> leftDirection,
             lastRightDirection |-> rightDirection,
             lastLeftColumn |-> leftColumn, lastRightColumn |-> rightColumn,
             lastLeftRow |-> leftRow, lastRightRow |-> rightRow,
             spawnId |-> g.spawnId + 2],
         cubes |->
            <<CubeData(g.spawnId, "orange", time, leftDirection, leftRow,
                       leftColumn),
              CubeData(g.spawnId + 1, "cyan", time, rightDirection, rightRow,
                       rightColumn)>>]

RECURSIVE FilterFrom(_, _, _, _)
\* the loop of filterBeatsByDifficulty from index i on
FilterFrom(beats, i, lastBeat, minInterval) ==
    IF i > Len(beats) THEN <<>>
    ELSE IF beats[i] - lastBeat >= minInterval
         THEN <<beats[i]>> \o FilterFrom(beats, i + 1, beats[i], minInterval)
         ELSE FilterFrom(beats, i + 1, lastBeat, minInterval)

RECURSIVE FilterFromStrict(_, _, _, _)
\* a filter loop that asks for more than the minimum interval
FilterFromStrict(beats, i, lastBeat, minInterval) ==
    IF i > Len(beats) THEN <<>>
    ELSE IF beats[i] - lastBeat > minInterval
         THEN <<beats[i]>>
              \o FilterFromStrict(beats, i + 1, beats[i], minInterval)
         ELSE FilterFromStrict(beats, i + 1, lastBeat, minInterval)

\* a filter that drops the beats exactly the minimum interval apart
filterBeatsStrictlyApart(beats, aDifficulty) ==
    IF aDifficulty >= 3 THEN beats
    ELSE LET minInterval == IF aDifficulty = 1 THEN Second \div 2
                                              ELSE (3 * Second) \div 10
         IN  FilterFromStrict(beats, 1, -minInterval, minInterval)

filterBeatsByDifficulty(beats, aDifficulty) ==
    IF aDifficulty >= 3 THEN beats
    ELSE LET minInterval == IF aDifficulty = 1 THEN Second \div 2
                                              ELSE (3 * Second) \div 10
         IN  FilterFrom(beats, 1, -minInterval, minInterval)

\* the intensity of the first event, however far it is from the beat
getIntensityOfFirstEvent(beatMap, time) ==
    IF ~beatMap.hasEvents \/ beatMap.events = <<>> THEN 50
    ELSE beatMap.events[1].intensity

\* in hundredths
getIntensityForBeat(beatMap, time) ==
    IF ~beatMap.hasEvents THEN 50
    ELSE LET close == {k \in 1..Len(beatMap.events) :
                          20 * Abs(beatMap.events[k].time - time) < Second}
         IN  IF close = {} THEN 50
             ELSE beatMap.events[CHOOSE k \in close :
                                     \A j \in close : k <= j].intensity

RECURSIVE GenerateFrom(_, _, _, _, _, _)
\* the loop of generateFromBeatMap from index i on: the generator after it
\* and the events it pushes
GenerateFrom(g, filteredBeats, i, beatMap, aDifficulty, draws) ==
    IF i > Len(filteredBeats) THEN [generator |-> g, events |-> <<>>]
    ELSE
      LET beat == filteredBeats[i]
          r == draws[i]
          intensity == getIntensityForBeat(beatMap, beat)
          isDoubleBlock == /\ intensity > 70
                           /\ r.double < DOUBLE_BLOCK_CHANCE * aDifficulty
          isLeftBeat == ~isDoubleBlock /\ r.left < 50
          made == IF isDoubleBlock THEN generateDoubleCubes(g, beat, r)
                  ELSE IF isLeftBeat
                  THEN generateSingleCube(g, beat, "orange", "left", r)
                  ELSE generateSingleCube(g, beat, "cyan", "right", r)
          rest == GenerateFrom(made.generator, filteredBeats, i + 1, beatMap,
                               aDifficulty, draws)
      IN  [generator |-> rest.generator,
           events |-> <<[time |-> beat, cubes |-> made.cubes]>> \o rest.events]

\* the generator after the call, and the SpawnEvents; draws[i] are the draws
\* of the i-th filtered beat
generateFromBeatMap(g, beatMap, aDifficulty, draws) ==
    GenerateFrom(g, filterBeatsByDifficulty(beatMap.beats, aDifficulty), 1,
                 beatMap, aDifficulty, draws)

\* the beats 0, 60/bpm, 2*60/bpm, .. below the duration, the first MaxBeats
\* of them
generateSimpleBeatMap(bpm, duration) ==
    LET beatInterval == (60 * Second) \div bpm
        count == Min(MaxBeats,
                     (duration * Second + beatInterval - 1) \div beatInterval)
    IN  [bpm |-> bpm, beats |-> [k \in 1..count |-> (k - 1) * beatInterval],
         hasEvents |-> FALSE, events |-> <<>>]

\* the draws of a beat whose calls of Math.random() all return r/100
UniformDraw(r) == [s \in DrawSlots |-> r]

-----------------------------------------------------------------------------
(* App.tsx: the score handlers, on the record of the four counters they     *)
(* touch.  The score is in tenths of a point.                                *)

\* handleScore, called from a closure that holds `streak`
handleScore(app, points, closureStreak) ==
    [app EXCEPT !.score = @ + points * (10 + closureStreak \div 10),
                !.streak = @ + 1,
                !.maxStreak = Max(@, app.streak + 1),
                !.totalHits = @ + 1]

\* a handleMiss that leaves the streak alone
handleMissKeepsStreak(app) == app

\* a handleMiss that clears maxStreak with the streak
handleMissClearsBest(app) == [app EXCEPT !.streak = 0, !.maxStreak = 0]

handleMiss(app) == [app EXCEPT !.streak = 0]

-----------------------------------------------------------------------------
(* GameScene.tsx: DirectionalCube.  An instance is the data prop, the z of   *)
(* its mesh and hitRef, and for the record the session that spawned it      *)
(* (born), the number of times it has called onHit or onMiss (calls) and    *)
(* whether a frame has found hitRef set and returned (idle).                *)

NoHand == [present |-> FALSE, position |-> Vec(0, 0, 0),
           velocity |-> Vec(0, 0, 0), history |-> <<>>]

RECURSIVE SumVec(_, _)
SumVec(history, i) ==
    IF i > Len(history) THEN Vec(0, 0, 0)
    ELSE LET rest == SumVec(history, i + 1)
         IN  Vec(history[i].x + rest.x, history[i].y + rest.y,
                 history[i].z + rest.z)

\* an average that leaves out the division by the number of samples
getAverageVelocityUndivided(velocityHistory) ==
    IF Len(velocityHistory) = 0 THEN Vec(0, 0, 0)
    ELSE SumVec(velocityHistory, 1)

\* slashValidator.ts; the division is exact on the histories used here
getAverageVelocity(velocityHistory) ==
    IF Len(velocityHistory) = 0 THEN Vec(0, 0, 0)
    ELSE LET sum == SumVec(velocityHistory, 1)
             n == Len(velocityHistory)
         IN  Vec(sum.x \div n, sum.y \div n, sum.z \div n)

\* Vector3.distanceTo, in hundredths, rounded down
distanceTo(p, q) ==
    Sqrt((p.x - q.x) * (p.x - q.x) + (p.y - q.y) * (p.y - q.y)
         + (p.z - q.z) * (p.z - q.z))

\* a DirectionalCube as React mounts it
Mount(entry) ==
    [data |-> entry.data, born |-> entry.born, z |-> entry.data.position.z,
     hitRef |-> FALSE, calls |-> 0, idle |-> FALSE]

\* the hitRef guard taken out: the callback runs whatever hitRef holds
resolvedNever(cube) == FALSE

\* if (!meshRef.current || hitRef.current) return
resolved(cube) == cube.hitRef

\* One call of the useFrame callback of a DirectionalCube: the instance after
\* it, and what it called (call: "none", "hit" or "miss").
\* the hand a cube is judged against: isCyan ? h.left : h.right
\* the other hand
targetHandOther(color) == IF color = "cyan" THEN "right" ELSE "left"

targetHand(color) == IF color = "cyan" THEN "left" ELSE "right"

cubeFrame(cube, delta, h, streakProp, fp) ==
    LET currentZ == cube.z + (CUBE_SPEED * 100 * delta) \div Second
        hand == IF targetHand(cube.data.color) = "left" THEN h.left
                                                         ELSE h.right
        avgVelocity == IF Len(hand.history) > 0
                       THEN getAverageVelocity(hand.history)
                       ELSE hand.velocity
        cubePos == Vec(cube.data.position.x, cube.data.position.y, currentZ)
        dist == distanceTo(cubePos, hand.position)
        inRange == /\ currentZ > -200 /\ currentZ < 300
                   /\ hand.present
                   /\ dist < HIT_THRESHOLD
        hitResult == IF inRange
                     THEN calculateHitScore(avgVelocity, cube.data.direction,
                                            dist, streakProp, fp)
                     ELSE NoHit
        missed == currentZ > DESPAWN_Z * 100
    IN  IF resolved(cube)
        THEN [cube |-> [cube EXCEPT !.idle = TRUE], call |-> "none",
              result |-> NoHit]
        ELSE [cube |-> [cube EXCEPT !.z = currentZ,
                                    !.hitRef = hitResult.hit \/ missed,
                                    !.calls = @ + (IF hitResult.hit THEN 1 ELSE 0)
                                                + (IF missed THEN 1 ELSE 0)],
              call |-> IF hitResult.hit THEN "hit"
                       ELSE IF missed THEN "miss" ELSE "none",
              result |-> hitResult]

-----------------------------------------------------------------------------
(* GameScene.tsx: CubeManager *)

\* |SPAWN_Z| / CUBE_SPEED, in time units
travelTime == (Abs(SPAWN_Z) * Second) \div CUBE_SPEED

RECURSIVE spawnUpTo(_, _, _)
\* the while loop of the spawn step: the value of nextSpawnIndexRef after it
spawnUpTo(events, index, spawnTime) ==
    IF index < Len(events) /\ events[index + 1].time <= spawnTime
    THEN spawnUpTo(events, index + 1, spawnTime)
    ELSE index

RECURSIVE cubesOf(_, _, _, _)
\* the cubes of the events from+1 .. to, in order, as setCubes appends them
cubesOf(events, from, to, born) ==
    IF from >= to THEN <<>>
    ELSE [k \in 1..Len(events[from + 1].cubes) |->
              [data |-> events[from + 1].cubes[k], born |-> born]]
         \o cubesOf(events, from + 1, to, born)

\* setCubes(prev => prev.filter(c => c.id !== id))
removeCube(list, id) == SelectSeq(list, LAMBDA c : c.data.id # id)

RECURSIVE frameCubesDropsPending(_, _, _, _, _, _)
\* frames that take a cube that called nothing out of the cubes
frameCubesDropsPending(i, acc, delta, h, fp, closure) ==
    IF i > Len(acc.mounted) THEN acc
    ELSE
      LET step == cubeFrame(acc.mounted[i], delta, h, closure.streak, fp)
          id == acc.mounted[i].data.id
          after == [acc EXCEPT
                      !.mounted[i] = step.cube,
                      !.cubes = removeCube(@, id),
                      !.app = IF step.call = "hit"
                              THEN handleScore(@, step.result.score,
                                               closure.streak)
                              ELSE IF step.call = "miss" THEN handleMiss(@)
                              ELSE @,
                      !.log = IF step.call = "none" THEN @
                              ELSE Append(@, [id |-> id,
                                              born |-> acc.mounted[i].born,
                                              call |-> step.call])]
      IN  frameCubesDropsPending(i + 1, after, delta, h, fp, closure)

RECURSIVE frameCubes(_, _, _, _, _, _)
\* The useFrame callbacks of the mounted cubes from the i-th on, in mount
\* order, and the handlers they call: handleCubeHit -> GameScene.handleScore
\* -> App.handleScore, handleCubeMiss -> App.handleMiss.  acc holds the
\* instances, the cubes state, the counters of App and the log.
frameCubes(i, acc, delta, h, fp, closure) ==
    IF i > Len(acc.mounted) THEN acc
    ELSE
      LET step == cubeFrame(acc.mounted[i], delta, h, closure.streak, fp)
          id == acc.mounted[i].data.id
          born == acc.mounted[i].born
          after ==
            IF step.call = "hit"
            THEN [acc EXCEPT
                    !.mounted[i] = step.cube,
                    !.cubes = removeCube(@, id),
                    !.app = handleScore(@, step.result.score, closure.streak),
                    !.log = Append(@, [id |-> id, born |-> born,
                                       call |-> "hit"])]
            ELSE IF step.call = "miss"
            THEN [acc EXCEPT
                    !.mounted[i] = step.cube,
                    !.cubes = removeCube(@, id),
                    !.app = handleMiss(@),
                    !.log = Append(@, [id |-> id, born |-> born,
                                       call |-> "miss"])]
            ELSE [acc EXCEPT !.mounted[i] = step.cube]
      IN  frameCubes(i + 1, after, delta, h, fp, closure)

\* React's reconciliation of the DirectionalCube children by key: an instance
\* whose key is still in the list stays (with the new data prop), every other
\* entry of the list is mounted, every other instance is unmounted
reconcile(instances, list) ==
    [k \in 1..Len(list) |->
        LET same == {j \in 1..Len(instances) :
                        instances[j].data.id = list[k].data.id}
        IN  IF same = {} THEN Mount(list[k])
            ELSE [instances[CHOOSE j \in same : \A m \in same : j <= m]
                    EXCEPT !.data = list[k].data]]

\* a CubeManager effect that does not call generator.reset()
startEffectKeepsGenerator(g, song, level, draws, list) ==
    LET beatMap == generateSimpleBeatMap(song.bpm, song.duration)
        made == generateFromBeatMap(g, beatMap, level, draws)
    IN  [generator |-> made.generator, spawnEvents |-> made.events,
         nextSpawnIndex |-> 0, cubes |-> <<>>]

\* a CubeManager effect that does not call setCubes([])
startEffectKeepsCubes(g, song, level, draws, list) ==
    LET beatMap == generateSimpleBeatMap(song.bpm, song.duration)
        made == generateFromBeatMap(reset, beatMap, level, draws)
    IN  [generator |-> made.generator, spawnEvents |-> made.events,
         nextSpawnIndex |-> 0, cubes |-> list]

\* The effect of CubeManager on [gameState, song, difficulty] when gameState
\* is PLAYING and there is a song: what it leaves in the generator, the refs
\* and the cubes state.  No song of SONGS has a beatMap.
startEffect(g, song, level, draws, list) ==
    LET beatMap == generateSimpleBeatMap(song.bpm, song.duration)
        made == generateFromBeatMap(reset, beatMap, level, draws)
    IN  [generator |-> made.generator, spawnEvents |-> made.events,
         nextSpawnIndex |-> 0, cubes |-> <<>>]

\* The spawn step of the useFrame callback of CubeManager, from a closure
\* that holds the rendered gameState and cubes: the refs and the cubes state
\* after it.
managerFrame(closure, currentTime) ==
    IF closure.gameState # "PLAYING" \/ ~wired
    THEN [nextSpawnIndex |-> nextSpawnIndex,
          cubes |-> IF Len(mounted) > 0 /\ closure.gameState = "MENU"
                    THEN <<>> ELSE cubes]
    ELSE LET spawnTime == currentTime + travelTime
             upTo == spawnUpTo(spawnEvents, nextSpawnIndex, spawnTime)
         IN  [nextSpawnIndex |-> upTo,
              cubes |-> cubes \o cubesOf(spawnEvents, nextSpawnIndex, upTo,
                                         session)]

-----------------------------------------------------------------------------
(* The game: App.tsx and GameScene.tsx.  A click handler runs with the       *)
(* render it causes and that render's effects; the updates a frame or a      *)
(* timer callback queues are applied to the state at once and rendered by a  *)
(* later step, Render, before which more frames may run from the old         *)
(* closures.  The clock of the frames, of the interval timer and of the      *)
(* audio element is one.                                                     *)

MaxSessions == 2    \* startGame is called at most MaxSessions times

MaxAudioTime == 3200    \* the length of the track of every song (4 s)

\* the time between two frames: 0.25 s and 0.5 s
Deltas == {Second \div 4, Second \div 2}

\* the values of Math.random() in the game: one value for all draws of a beat
Draws == {20, 60}

\* the draws of the beats of one schedule: one value on the odd beats and
\* one on the even beats
DrawSeqs ==
    {[k \in 1..MaxBeats |-> UniformDraw(IF k % 2 = 1 THEN a ELSE b)] :
        a \in Draws, b \in Draws}

\* where a hand is: on a cell of the grid, in the plane z = 0
CellAt(column, row) ==
    Vec(gridToPosition(column, row).x, gridToPosition(column, row).y, 0)

Hand(position, velocity, history) ==
    [present |-> TRUE, position |-> position, velocity |-> velocity,
     history |-> history]

\* hands.current as a frame finds it: the left hand away or on the right side
\* of the grid, where the cyan cubes come, moving down and left or (by its
\* history) right; the right hand away or on the left side, moving down.  No
\* slash here is at 45 degrees from a direction, so the rounding has no say.
FrameInputs ==
    [left : {NoHand, Hand(CellAt(3, 1), Vec(-60, -60, 0), <<>>),
             Hand(CellAt(3, 1), Vec(0, 0, 0), <<Vec(80, 0, 0), Vec(100, 0, 0)>>)},
     right : {NoHand, Hand(CellAt(0, 1), Vec(0, -90, 0), <<>>)},
     fp : {0}]

NoProbe == [velocity |-> Vec(0, 0, 0)]

\* the pure-function variables, where the game does not use them
IdlePure ==
    /\ probe = NoProbe
    /\ called = FALSE
    /\ result = NoHit

\* App and GameScene after mount, in a host that passes audioElement and
\* streak (w) or, as App does, leaves them out
InitGame(w) ==
    /\ gameState = "MENU"
    /\ score = 0 /\ streak = 0 /\ maxStreak = 0
    /\ perfectHits = 0 /\ totalHits = 0
    /\ currentSong = 1
    /\ timeLeft = 0
    /\ difficulty = 1
    /\ timerArmed = FALSE /\ sinceTick = 0
    /\ audioPlaying = FALSE /\ audioTime = 0
    /\ wired = w
    /\ shown = [gameState |-> "MENU", streak |-> 0]
    /\ generator = reset
    /\ spawnEvents = <<>>
    /\ nextSpawnIndex = 0
    /\ cubes = <<>>
    /\ mounted = <<>>
    /\ session = 0 /\ cleared = FALSE /\ log = <<>>
    /\ materialized = <<>>

\* startGame, from the PLAY button, which the menu shows, and the render and
\* effect that follow.  play() is taken to succeed.
StartGame ==
    /\ shown.gameState = "MENU"
    /\ session < MaxSessions
    /\ \E draws \in DrawSeqs :
        \E effect \in {startEffect(generator, SONGS[currentSong], difficulty,
                                   draws, cubes)} :
            /\ score' = 0 /\ streak' = 0 /\ maxStreak' = 0
            /\ perfectHits' = 0 /\ totalHits' = 0
            /\ timeLeft' = 60
            /\ gameState' = "PLAYING"
            /\ audioPlaying' = TRUE /\ audioTime' = 0
            /\ timerArmed' = TRUE /\ sinceTick' = 0
            /\ shown' = [gameState |-> "PLAYING", streak |-> 0]
            /\ generator' = effect.generator
            /\ spawnEvents' = effect.spawnEvents
            /\ nextSpawnIndex' = effect.nextSpawnIndex
            /\ cubes' = effect.cubes
            /\ mounted' = reconcile(mounted, effect.cubes)
    /\ session' = session + 1
    /\ cleared' = (Len(mounted) > 0)
    /\ log' = <<>>
    /\ materialized' = <<>>
    /\ UNCHANGED <<scoreVars, currentSong, difficulty, wired>>

\* restartGame, from the REPLAY button, which the game-over screen shows, and
\* the render that follows
RestartGame ==
    /\ shown.gameState = "GAME_OVER"
    /\ gameState' = "MENU"
    /\ audioPlaying' = FALSE /\ audioTime' = 0
    /\ timerArmed' = FALSE /\ sinceTick' = 0
    /\ shown' = [gameState |-> "MENU", streak |-> streak]
    /\ mounted' = reconcile(mounted, cubes)
    /\ UNCHANGED <<scoreVars, score, streak, maxStreak, perfectHits, totalHits,
                   currentSong, timeLeft, difficulty, wired, generator,
                   spawnEvents, nextSpawnIndex, cubes, historyVars>>

\* stopGame, in primed variables
StopGame ==
    /\ timerArmed' = FALSE /\ sinceTick' = 0
    /\ audioPlaying' = FALSE /\ audioTime' = 0
    /\ gameState' = "GAME_OVER"

\* the interval callback of startGame, a second after the last
TimerTick ==
    /\ timerArmed
    /\ sinceTick >= Second
    /\ IF timeLeft <= 1
       THEN StopGame /\ timeLeft' = 0
       ELSE /\ timeLeft' = timeLeft - 1
            /\ sinceTick' = 0
            /\ UNCHANGED <<timerArmed, audioPlaying, audioTime, gameState>>
    /\ UNCHANGED <<scoreVars, score, streak, maxStreak, perfectHits, totalHits,
                   currentSong, difficulty, sceneVars, historyVars>>

\* audio.onended: the audio has played to where no frame fits before its end
AudioEnded ==
    /\ audioPlaying
    /\ \A delta \in Deltas : audioTime + delta > MaxAudioTime
    /\ StopGame
    /\ UNCHANGED <<scoreVars, score, streak, maxStreak, perfectHits, totalHits,
                   currentSong, timeLeft, difficulty, sceneVars, historyVars>>

\* One frame of the render loop after delta: the useFrame callback of
\* CubeManager, then those of the mounted cubes in mount order, all from the
\* closures of the last render, with the hands as the frame finds them.
Frame ==
    \E delta \in Deltas, h \in FrameInputs :
        /\ audioPlaying => audioTime + delta <= MaxAudioTime
        /\ timerArmed => sinceTick + delta <= Second
        /\ \E currentTime \in {IF audioPlaying THEN audioTime + delta
                                ELSE audioTime} :
           \E manager \in {managerFrame(shown, currentTime)} :
           \E acc \in {frameCubes(1,
                        [mounted |-> mounted, cubes |-> manager.cubes,
                         app |-> [score |-> score, streak |-> streak,
                                  maxStreak |-> maxStreak,
                                  totalHits |-> totalHits],
                         log |-> log],
                        delta, h, h.fp, shown)} :
               /\ audioTime' = currentTime
               /\ sinceTick' = IF timerArmed THEN sinceTick + delta
                               ELSE sinceTick
               /\ nextSpawnIndex' = manager.nextSpawnIndex
               /\ materialized' = materialized \o
                      [k \in 1..(manager.nextSpawnIndex - nextSpawnIndex) |->
                          nextSpawnIndex + k]
               /\ cubes' = acc.cubes
               /\ mounted' = acc.mounted
               /\ score' = acc.app.score
               /\ streak' = acc.app.streak
               /\ maxStreak' = acc.app.maxStreak
               /\ totalHits' = acc.app.totalHits
               /\ log' = acc.log
        /\ UNCHANGED <<scoreVars, gameState, perfectHits, currentSong,
                       timeLeft, difficulty, timerArmed, audioPlaying, wired,
                       shown, generator, spawnEvents, session, cleared>>

\* the keys of a list of cubes or of instances
Keys(list) == [k \in 1..Len(list) |-> list[k].data.id]

\* React renders the updates that frames and timers have queued
Render ==
    /\ \/ shown # [gameState |-> gameState, streak |-> streak]
       \/ Keys(mounted) # Keys(cubes)
    /\ shown' = [gameState |-> gameState, streak |-> streak]
    /\ mounted' = reconcile(mounted, cubes)
    /\ UNCHANGED <<scoreVars, appVars, wired, generator, spawnEvents,
                   nextSpawnIndex, cubes, historyVars>>

\* onSelectSong, from the song list of the menu, and the render that follows
SelectSong ==
    /\ shown.gameState = "MENU"
    /\ \E s \in 1..Len(SONGS) : currentSong' = s
    /\ shown' = [gameState |-> gameState, streak |-> streak]
    /\ mounted' = reconcile(mounted, cubes)
    /\ UNCHANGED <<scoreVars, gameState, score, streak, maxStreak, perfectHits,
                   totalHits, timeLeft, difficulty, timerArmed, sinceTick,
                   audioPlaying, audioTime, wired, generator, spawnEvents,
                   nextSpawnIndex, cubes, historyVars>>

\* onSetDifficulty, from the slider of the menu (1 to 3), and the render that
\* follows
SetDifficulty ==
    /\ shown.gameState = "MENU"
    /\ \E d \in 1..3 : difficulty' = d
    /\ shown' = [gameState |-> gameState, streak |-> streak]
    /\ mounted' = reconcile(mounted, cubes)
    /\ UNCHANGED <<scoreVars, gameState, score, streak, maxStreak, perfectHits,
                   totalHits, currentSong, timeLeft, timerArmed, sinceTick,
                   audioPlaying, audioTime, wired, generator, spawnEvents,
                   nextSpawnIndex, cubes, historyVars>>

\* the scene in a host that passes every prop GameSceneProps declares
Init == IdlePure /\ InitGame(TRUE)

Next ==
    \/ StartGame
    \/ RestartGame
    \/ TimerTick
    \/ AudioEnded
    \/ Frame
    \/ Render

Spec == Init /\ [][Next]_vars

\* the scene in App, which passes neither audioElement nor streak
InitApp == IdlePure /\ InitGame(FALSE)

NextApp ==
    \/ StartGame
    \/ RestartGame
    \/ TimerTick
    \/ AudioEnded
    \/ SelectSong
    \/ SetDifficulty
    \/ Frame
    \/ Render

SpecApp == InitApp /\ [][NextApp]_vars

-----------------------------------------------------------------------------
(* The game: properties.  A target is a cube of one session: its id and the *)
(* session that spawned it.                                                 *)

Target(e) == <<e.id, e.born>>

\* the instances of the last render that have called onHit or onMiss
Resolved == {i \in DOMAIN mounted : mounted[i].hitRef}

\* no target has two entries in the log, and an instance has called onHit or
\* onMiss once, and is in the log, if hitRef is set and never otherwise
ResolvedOnce ==
    /\ \A j, k \in DOMAIN log :
          j # k => Target(log[j]) # Target(log[k])
    /\ \A i \in DOMAIN mounted :
          /\ mounted[i].calls = (IF mounted[i].hitRef THEN 1 ELSE 0)
          /\ mounted[i].hitRef =>
                \E k \in DOMAIN log :
                    Target(log[k]) = <<mounted[i].data.id, mounted[i].born>>

\* an instance with hitRef set comes out of a step as it went in, and with
\* no new entry in the log, if it is still mounted
ResolvedStaysStep ==
    \A i \in Resolved, j \in DOMAIN mounted' :
        (mounted'[j].data.id = mounted[i].data.id
            /\ mounted'[j].born = mounted[i].born)
        => /\ [mounted'[j] EXCEPT !.idle = FALSE]
                = [mounted[i] EXCEPT !.idle = FALSE]
           /\ \A k \in DOMAIN log' :
                 Target(log'[k]) = <<mounted[i].data.id, mounted[i].born>>
                 => k <= Len(log)

\* C3: a target goes from pending to hit or to missed at most once: onHit or
\* onMiss is called at most once for it, and every later frame on it is a
\* no-op (it does not move and calls nothing).
C3_ResolvedAtMostOnce == []ResolvedOnce /\ [][ResolvedStaysStep]_vars

\* a frame has run on an instance after it called onHit or onMiss
C3_Witness ==
    \E i \in Resolved : mounted[i].idle /\ mounted[i].calls = 1

RECURSIVE HitsSinceLastMiss(_)
\* the number of hits at the end of a sequence of calls
HitsSinceLastMiss(events) ==
    IF events = <<>> \/ events[Len(events)].call = "miss" THEN 0
    ELSE 1 + HitsSinceLastMiss(SubSeq(events, 1, Len(events) - 1))

\* the largest number of hits in a row in a sequence of calls
LongestRun(events) ==
    LET runs == {HitsSinceLastMiss(SubSeq(events, 1, k)) :
                    k \in 0..Len(events)}
    IN  CHOOSE n \in runs : \A m \in runs : m <= n

\* C4: in a session streak is the number of hits since the last miss,
\* maxStreak the largest value streak has had, and
\* streak <= maxStreak <= totalHits.
C4_StreakCounters ==
    /\ streak = HitsSinceLastMiss(log)
    /\ maxStreak = LongestRun(log)
    /\ streak <= maxStreak
    /\ maxStreak <= totalHits

\* a hit, a miss after it and a hit after that
C4_Witness ==
    /\ \E i, j, k \in DOMAIN log :
          /\ i < j /\ j < k
          /\ log[i].call = "hit" /\ log[j].call = "miss"
          /\ log[k].call = "hit"
    /\ maxStreak < totalHits

\* C5: after restartGame and startGame every onHit and onMiss comes from a
\* target spawned in the new session.
C5_NoStaleTarget ==
    \A k \in DOMAIN log : log[k].born = session

\* the second startGame found targets mounted, and targets have been hit or
\* missed since
C5_Witness ==
    /\ session = 2
    /\ cleared
    /\ log # <<>>

\* C6 holds of a step: if it is a startGame, the counters are 0, the state
\* is PLAYING, the schedule is one that a generator just reset makes for the
\* song and the difficulty, the next-spawn index is 0 and no cube is left
StartResetsStep ==
    session' = session + 1 =>
        /\ score' = 0 /\ streak' = 0 /\ maxStreak' = 0
        /\ perfectHits' = 0 /\ totalHits' = 0
        /\ gameState' = "PLAYING"
        /\ \E draws \in DrawSeqs :
              LET song == SONGS[currentSong]
                  made == generateFromBeatMap(
                              reset,
                              generateSimpleBeatMap(song.bpm, song.duration),
                              difficulty, draws)
              IN  /\ spawnEvents' = made.events
                  /\ generator' = made.generator
        /\ nextSpawnIndex' = 0
        /\ cubes' = <<>>
        /\ mounted' = <<>>

\* C6: startGame sets score, streak, maxStreak, perfectHits and totalHits to
\* 0 and the state to PLAYING, and the cube manager resets the generator,
\* makes the schedule anew, sets the next-spawn index to 0 and clears the
\* cubes.
C6_StartResets == [][StartResetsStep]_vars

\* right after the second startGame, which found cubes mounted and a
\* generator that had made a schedule
C6_Witness ==
    /\ session = 2
    /\ cleared
    /\ gameState = "PLAYING"
    /\ audioTime = 0
    /\ nextSpawnIndex = 0
    /\ mounted = <<>>

\* the indexes of the SpawnEvents with time <= audioTime + |SPAWN_Z|/CUBE_SPEED
Due ==
    {k \in DOMAIN spawnEvents : spawnEvents[k].time <= audioTime + travelTime}

\* a frame has run since startGame: the audio has advanced
SpawnStepRan == gameState = "PLAYING" /\ audioTime > 0

\* C7: while PLAYING, once a frame has run its spawn step, the SpawnEvents
\* turned into cubes are those with time <= audioTime + |SPAWN_Z|/CUBE_SPEED
\* and no other, each once and in the order of the schedule.
C7_DueEventsMaterialized ==
    SpawnStepRan =>
        /\ materialized = [k \in 1..Len(materialized) |-> k]
        /\ {materialized[k] : k \in DOMAIN materialized} = Due

-----------------------------------------------------------------------------
(* The slash validator on its own: one call on each input of a bounded grid *)

MaxV == 14          \* velocity components range over -MaxV*5 .. MaxV*5 tenths

MaxStreak == 720    \* streaks range over 0 .. MaxStreak

VComponents == {5 * k : k \in -MaxV..MaxV}

Velocities == {Vec(x, y, z) : x \in VComponents, y \in VComponents, z \in {0, 30}}

HitDistances == {0, 10, 11, 60, 150}

\* the best slash there is: base score 100
BestSlash == Vec(0, 90, 0)

\* the arguments of the calls: every velocity of the grid against every
\* direction at two streaks, and the best slash at every streak
ScoreInputs ==
    [velocity : Velocities, direction : SlashDirection,
     distance : HitDistances, streak : {0, 25}, fp : {0, 1}]
    \cup
    [velocity : {BestSlash}, direction : {"UP"}, distance : {0},
     streak : 0..MaxStreak, fp : {0}]

InitScore ==
    /\ probe \in ScoreInputs
    /\ called = FALSE
    /\ result = NoHit
    /\ InitGame(FALSE)

\* the call of calculateHitScore on the arguments drawn
Slash ==
    /\ ~called
    /\ called' = TRUE
    /\ result' = calculateHitScore(probe.velocity, probe.direction,
                                   probe.distance, probe.streak, probe.fp)
    /\ UNCHANGED <<probe, appVars, sceneVars, historyVars>>

NextScore == Slash

SpecScore == InitScore /\ [][NextScore]_vars

Called == called

\* the square of the slash's speed, exactly, in hundredths of (units/s)^2
SpeedSquared == probe.velocity.x * probe.velocity.x
                + probe.velocity.y * probe.velocity.y
                + probe.velocity.z * probe.velocity.z

BelowMinimum == SpeedSquared < MIN_SLASH_VELOCITY * MIN_SLASH_VELOCITY

\* C1: a slash slower than MIN_SLASH_VELOCITY is never a hit, whatever the
\* required direction, the hit distance and the streak: the result has
\* hit = false, score 0 and perfectHit = false.
C1_SlowSlashNeverHits ==
    (Called /\ BelowMinimum) =>
        /\ result.hit = FALSE
        /\ result.score = 0
        /\ result.perfectHit = FALSE

\* a slow slash of non-zero velocity against a target of any direction
C1_Witness ==
    /\ Called /\ BelowMinimum
    /\ probe.velocity = Vec(0, 25, 0)
    /\ probe.direction = "UP"
    /\ probe.distance = 0
    /\ probe.streak = 25

\* The angle between the slash's XY projection and the required direction is
\* at most 45 degrees, decided exactly from the dot and cross products of the
\* projection with the direction's vector (its components' signs, which
\* point the same way): strictly inside the cone when 0 <= |cross| < dot; on
\* the edge of the cone when |cross| = dot > 0, where the double the source
\* compares is 45 or the next double above it (fp).
WithinTolerance ==
    LET dirVec == DIRECTION_VECTORS(probe.direction)
        rx == Sign(dirVec.x)
        ry == Sign(dirVec.y)
        dot == rx * probe.velocity.x + ry * probe.velocity.y
        cross == rx * probe.velocity.y - ry * probe.velocity.x
    IN  /\ dot > 0
        /\ \/ Abs(cross) < dot
           \/ Abs(cross) = dot /\ probe.fp = 0

\* C2: a slash of at least MIN_SLASH_VELOCITY is a hit exactly when the
\* required direction is ANY or the angle between its XY projection and the
\* required direction is at most DIRECTION_TOLERANCE; every other call
\* returns a value with hit = false and score 0 (required UP struck with
\* (5,0,0) is one), and every call returns a value.
C2_HitIffWithinTolerance ==
    (Called /\ ~BelowMinimum) =>
        /\ result.hit \in BOOLEAN
        /\ result.hit = (probe.direction = "ANY" \/ WithinTolerance)
        /\ ~result.hit => result.score = 0
        /\ (probe.direction = "UP" /\ probe.velocity = Vec(50, 0, 0))
               => (result.hit = FALSE /\ result.score = 0)

\* required UP struck with (5,0,0): rejected
C2_Witness ==
    /\ Called /\ ~BelowMinimum
    /\ probe.direction = "UP"
    /\ probe.velocity = Vec(50, 0, 0)
    /\ result.hit = FALSE

\* the calls with the best slash: the score is 100 times the multiplier
OnLadder ==
    /\ Called
    /\ probe.velocity = BestSlash
    /\ probe.direction = "UP"
    /\ probe.distance = 0

\* C8: the combo multiplier is 1 + min(floor(streak/STEP) * 0.1, MAX - 1):
\* it does not decrease with the streak, never exceeds MAX_COMBO_MULTIPLIER,
\* and is 1.2 at streak 25.  Read off the score of a slash of base score 100.
C8_ComboMultiplier ==
    OnLadder =>
        /\ result.score =
              10 * (10 + Min(probe.streak \div COMBO_MULTIPLIER_STEP,
                             10 * (MAX_COMBO_MULTIPLIER - 1)))
        /\ result.score <= 100 * MAX_COMBO_MULTIPLIER
        /\ probe.streak > 0 =>
              result.score >= calculateHitScore(probe.velocity,
                  probe.direction, probe.distance, probe.streak - 1,
                  probe.fp).score
        /\ probe.streak = 25 => result.score = 120

\* a streak past the cap: the multiplier is 8
C8_Witness ==
    /\ OnLadder
    /\ probe.streak > 10 * 10 * (MAX_COMBO_MULTIPLIER - 1)
    /\ result.score = 100 * MAX_COMBO_MULTIPLIER

\* the same slash at another speed: the other z component of the grid
OtherSpeed ==
    Vec(probe.velocity.x, probe.velocity.y, 30 - probe.velocity.z)

\* C9: an accepted hit is perfect exactly when its angle accuracy and its
\* position accuracy are both at least PERFECT_THRESHOLD, whatever its
\* speed: the same slash at another speed, accepted too, has the same flag.
\* Required UP struck with (0,5,0) at distance 0 and streak 0 has angle
\* accuracy 1, position accuracy 1 and is perfect.
C9_PerfectHit ==
    (Called /\ result.hit) =>
        /\ result.perfectHit =
              (/\ 100 * result.angleAccuracy >= PERFECT_THRESHOLD * One
               /\ 100 * result.positionAccuracy >= PERFECT_THRESHOLD * One)
        /\ LET other == calculateHitScore(OtherSpeed, probe.direction,
                            probe.distance, probe.streak, probe.fp)
           IN  other.hit => other.perfectHit = result.perfectHit
        /\ (/\ probe.direction = "UP" /\ probe.velocity = Vec(0, 50, 0)
            /\ probe.distance = 0 /\ probe.streak = 0)
               => /\ result.angleAccuracy = One
                  /\ result.positionAccuracy = One
                  /\ result.perfectHit = TRUE

\* required UP struck with (0,5,0) at distance 0 and streak 0: perfect, at a
\* speed that earns a little over half of the speed score
C9_Witness ==
    /\ Called /\ result.hit
    /\ probe.direction = "UP" /\ probe.velocity = Vec(0, 50, 0)
    /\ probe.distance = 0 /\ probe.streak = 0
    /\ result.perfectHit = TRUE
    /\ 100 * result.speedBonus < PERFECT_THRESHOLD * One

-----------------------------------------------------------------------------
(* velocityToDirection on its own: a velocity and the same velocity scaled *)

MaxC == 8           \* XY components range over -MaxC .. MaxC tenths

MaxK == 3           \* scale factors range over 1 .. MaxK

ClassifyInputs ==
    [velocity : {Vec(x, y, 0) : x \in -MaxC..MaxC, y \in -MaxC..MaxC},
     k : 1..MaxK]

InitClassify ==
    /\ probe \in ClassifyInputs
    /\ called = FALSE
    /\ result = [base |-> "ANY", scaled |-> "ANY"]
    /\ InitGame(FALSE)

\* velocityToDirection(v) and velocityToDirection(k * v)
Classify ==
    /\ ~called
    /\ called' = TRUE
    /\ result' = [base |-> velocityToDirection(probe.velocity),
                  scaled |-> velocityToDirection(Scale(probe.k, probe.velocity))]
    /\ UNCHANGED <<probe, appVars, sceneVars, historyVars>>

NextClassify == Classify

SpecClassify == InitClassify /\ [][NextClassify]_vars

\* C10: velocityToDirection depends on the direction of its input only: a
\* velocity of non-zero XY projection and the same velocity scaled by k > 0
\* are classified alike.
C10_ScaleInvariant ==
    (called /\ (probe.velocity.x # 0 \/ probe.velocity.y # 0)) =>
        result.scaled = result.base

-----------------------------------------------------------------------------
(* calculateSlashAngle on its own *)

MaxA == 6           \* XY components range over -MaxA .. MaxA tenths

AngleInputs ==
    [velocity : {Vec(x, y, z) : x \in -MaxA..MaxA, y \in -MaxA..MaxA,
                                z \in {0, 30}},
     requiredDirection : SlashDirection,
     fp : {0, 1}]

InitAngle ==
    /\ probe \in AngleInputs
    /\ called = FALSE
    /\ result = [angle |-> 0]
    /\ InitGame(FALSE)

SlashAngle ==
    /\ ~called
    /\ called' = TRUE
    /\ result' = [angle |-> calculateSlashAngle(probe.velocity,
                                                probe.requiredDirection,
                                                probe.fp)]
    /\ UNCHANGED <<probe, appVars, sceneVars, historyVars>>

NextAngle == SlashAngle

SpecAngle == InitAngle /\ [][NextAngle]_vars

\* the velocity's XY projection is a positive (k > 0) or negative (k < 0)
\* multiple of the direction's vector as constants.ts gives it
Along(k) ==
    LET d == DIRECTION_VECTORS(probe.requiredDirection)
    IN  /\ probe.requiredDirection # "ANY"
        /\ d.x * probe.velocity.y - d.y * probe.velocity.x = 0
        /\ Sign(d.x * probe.velocity.x + d.y * probe.velocity.y) = k

-----------------------------------------------------------------------------
(* getAverageVelocity on its own *)

MaxHistory == 3     \* histories have 0 .. MaxHistory samples

\* samples whose components are multiples of 1.2 units/s, so that the mean of
\* up to four of them is on the grid
Samples == {Vec(12 * i, 12 * j, 12) : i \in -1..1, j \in -1..1}

Histories == UNION {[1..n -> Samples] : n \in 0..MaxHistory}

InitAverage ==
    /\ probe \in [velocityHistory : Histories]
    /\ called = FALSE
    /\ result = [avg |-> Vec(0, 0, 0)]
    /\ InitGame(FALSE)

\* the call writes to the new vector avg only: the array it was passed and the
\* vectors in it are as they were
Average ==
    /\ ~called
    /\ called' = TRUE
    /\ result' = [avg |-> getAverageVelocity(probe.velocityHistory)]
    /\ UNCHANGED <<probe, appVars, sceneVars, historyVars>>

NextAverage == Average

SpecAverage == InitAverage /\ [][NextAverage]_vars

RECURSIVE SumOf(_, _)
\* the sum of the integers f[i] for i in the finite set S
SumOf(f, S) ==
    IF S = {} THEN 0
    ELSE LET i == CHOOSE j \in S : TRUE
         IN  f[i] + SumOf(f, S \ {i})

\* what getAverageVelocity returned is the mean of the samples
MeanReturned ==
    LET h == probe.velocityHistory
        n == Len(h)
    IN  called =>
          /\ n = 0 => result.avg = Vec(0, 0, 0)
          /\ n = 1 => result.avg = h[1]
          /\ n * result.avg.x = SumOf([i \in 1..n |-> h[i].x], 1..n)
          /\ n * result.avg.y = SumOf([i \in 1..n |-> h[i].y], 1..n)
          /\ n * result.avg.z = SumOf([i \in 1..n |-> h[i].z], 1..n)

HistoryKeptStep == probe'.velocityHistory = probe.velocityHistory

\* C12: getAverageVelocity returns the zero vector for an empty history, v for
\* the history [v] and the component-wise mean of the samples in general, and
\* leaves the history as it was.
C12_AverageVelocity == []MeanReturned /\ [][HistoryKeptStep]_vars

\* three samples that differ have been averaged
C12_Witness ==
    /\ called
    /\ probe.velocityHistory =
           <<Vec(12, -12, 12), Vec(12, 0, 12), Vec(-12, 12, 12)>>
    /\ result.avg = Vec(4, 0, 12)

-----------------------------------------------------------------------------
(* generateFromBeatMap on beat maps of every spacing *)

MaxFilterBeats == 4     \* beat maps have 0 .. MaxFilterBeats beats

MaxBeatStep == 6        \* a beat is 0 .. MaxBeatStep tenths of a second
                        \* after the beat before it, the first one after 0

RECURSIVE TimeOf(_, _)
\* the time of the k-th beat of the beats with the steps given
TimeOf(steps, k) ==
    IF k = 0 THEN 0 ELSE TimeOf(steps, k - 1) + (steps[k] * Second) \div 10

\* the beat lists in ascending order
BeatLists ==
    {[k \in 1..Len(steps) |-> TimeOf(steps, k)] :
        steps \in UNION {[1..n -> 0..MaxBeatStep] : n \in 0..MaxFilterBeats}}

InitFilter ==
    /\ probe \in [beats : BeatLists, difficulty : 1..4, draw : {20, 60}]
    /\ called = FALSE
    /\ result = [generator |-> reset, events |-> <<>>]
    /\ InitGame(FALSE)

GenerateFiltered ==
    /\ ~called
    /\ called' = TRUE
    /\ result' =
          generateFromBeatMap(
              reset,
              [bpm |-> 120, beats |-> probe.beats, hasEvents |-> FALSE,
               events |-> <<>>],
              probe.difficulty,
              [k \in 1..Len(probe.beats) |-> UniformDraw(probe.draw)])
    /\ UNCHANGED <<probe, appVars, sceneVars, historyVars>>

NextFilter == GenerateFiltered

SpecFilter == InitFilter /\ [][NextFilter]_vars

\* the minimum gap of difficulty 1 (0.5 s) and 2 (0.3 s)
Gap == IF probe.difficulty = 1 THEN Second \div 2 ELSE (3 * Second) \div 10

\* the indexes of the beats a greedy pass keeps: a beat is in exactly when no
\* beat before it is in, or it is at least the gap after the last one in
GreedyKept ==
    LET b == probe.beats
    IN  CHOOSE S \in SUBSET (1..Len(b)) :
          \A i \in 1..Len(b) :
            LET before == {j \in S : j < i}
            IN  i \in S <=>
                  \/ before = {}
                  \/ b[i] - b[CHOOSE j \in before :
                                 \A k \in before : k <= j] >= Gap

\* the beats at the indexes S, in order
BeatsAt(S) ==
    [k \in 1..Cardinality(S) |->
        probe.beats[CHOOSE i \in S : Cardinality({j \in S : j <= i}) = k]]

EventTimes == [k \in 1..Len(result.events) |-> result.events[k].time]

SpacedAtGap ==
    \A i \in 1..(Len(probe.beats) - 1) :
        probe.beats[i + 1] - probe.beats[i] = Gap

\* C13: at difficulty 3 and above there is a SpawnEvent for every beat; at
\* difficulty 1 (gap 0.5 s) and 2 (gap 0.3 s) there is one for each beat of
\* the greedy subsequence that keeps a beat exactly when it is at least the
\* gap after the last beat kept, so that kept beats are at least the gap
\* apart and beats spaced exactly at the gap are all kept.
C13_FilterByDifficulty ==
    called =>
        /\ probe.difficulty >= 3 => EventTimes = probe.beats
        /\ probe.difficulty < 3 =>
              /\ EventTimes = BeatsAt(GreedyKept)
              /\ \A k \in 1..(Len(EventTimes) - 1) :
                    EventTimes[k + 1] - EventTimes[k] >= Gap
              /\ SpacedAtGap => EventTimes = probe.beats

\* the beats 0, 0.5, 1.0 and 1.5 s at difficulty 1 have given four SpawnEvents
C13_Witness ==
    /\ called
    /\ probe.difficulty = 1
    /\ probe.beats = <<0, Second \div 2, Second, (3 * Second) \div 2>>
    /\ Len(result.events) = 4

\* a beat closer than the gap has been dropped and a later one kept
C13_Dropped ==
    /\ called
    /\ probe.difficulty = 2
    /\ probe.beats = <<0, Second \div 10, (3 * Second) \div 10, Second \div 2>>
    /\ EventTimes = <<0, (3 * Second) \div 10>>

-----------------------------------------------------------------------------
(* generateFromBeatMap on beat maps with intensities *)

MaxPatternBeats == 2    \* beat maps have MaxPatternBeats beats

\* the draws of one beat: a decides between double and single and between
\* left and right, b between mirrored and parallel, c whether columns and
\* rows move, d where they move to, e the directions; the right cube of a
\* parallel double block draws the opposite of the left cube's c and d
PatternDraw(a, b, c, d, e) ==
    [s \in DrawSlots |->
        IF s \in {"double", "left"} THEN a
        ELSE IF s = "mirrored" THEN b
        ELSE IF s \in {"colA", "rowA"} THEN c
        ELSE IF s \in {"colB", "rowB", "lcol"} THEN d
        ELSE IF s = "rrowA" THEN 100 - c
        ELSE IF s \in {"rrowB", "rcol"} THEN 100 - d
        ELSE e]

PatternDraws ==
    {PatternDraw(a, b, c, d, e) :
        a \in {10, 70}, b \in {30, 80}, c \in {20, 80}, d \in {20, 80},
        e \in {10, 55, 90}}

InitPattern ==
    /\ probe \in [intensity : {50, 80}, difficulty : {1, 3},
                   draws : [1..MaxPatternBeats -> PatternDraws]]
    /\ called = FALSE
    /\ result = [generator |-> reset, events |-> <<>>]
    /\ InitGame(FALSE)

\* a beat a second, each with an event of the intensity drawn
GeneratePattern ==
    /\ ~called
    /\ called' = TRUE
    /\ result' =
          generateFromBeatMap(
              reset,
              [bpm |-> 60,
               beats |-> [k \in 1..MaxPatternBeats |-> (k - 1) * Second],
               hasEvents |-> TRUE,
               events |-> [k \in 1..MaxPatternBeats |->
                             [time |-> (k - 1) * Second,
                              intensity |-> probe.intensity]]],
              probe.difficulty,
              probe.draws)
    /\ UNCHANGED <<probe, appVars, sceneVars, historyVars>>

NextPattern == GeneratePattern

SpecPattern == InitPattern /\ [][NextPattern]_vars

\* C14: every target of every SpawnEvent is in the half of the grid of the
\* hand it is judged against: columns 0 and 1 for the left hand, columns 2 and
\* 3 for the right hand.
C14_ColumnInHandsHalf ==
    \A k \in 1..Len(result.events) :
        \A c \in 1..Len(result.events[k].cubes) :
            LET cube == result.events[k].cubes[c]
            IN  cube.column \in
                    (IF targetHand(cube.color) = "left" THEN {0, 1}
                                                       ELSE {2, 3})

\* the direction whose vector is the reflection of d's in the vertical axis
Reflected(d) ==
    CHOOSE e \in SlashDirection :
        /\ DIRECTION_VECTORS(e).x = -DIRECTION_VECTORS(d).x
        /\ DIRECTION_VECTORS(e).y = DIRECTION_VECTORS(d).y

\* the SpawnEvents whose two cubes were generated as mirrored
MirroredDoubles ==
    {k \in 1..Len(result.events) :
        /\ Len(result.events[k].cubes) = 2
        /\ probe.draws[k].mirrored < 60}

\* C15: in a double block generated as mirrored the right cube has the mirror
\* of the left cube's direction and the left cube's row; the mirror map is
\* defined on all nine directions, swaps LEFT and RIGHT, UP_LEFT and UP_RIGHT,
\* DOWN_LEFT and DOWN_RIGHT, fixes UP, DOWN and ANY, and is its own inverse.
C15_MirroredDouble ==
    /\ \A d \in SlashDirection :
          /\ getMirroredDirection(d) \in SlashDirection
          /\ getMirroredDirection(d) = Reflected(d)
          /\ getMirroredDirection(getMirroredDirection(d)) = d
    /\ getMirroredDirection("LEFT") = "RIGHT"
    /\ getMirroredDirection("UP_LEFT") = "UP_RIGHT"
    /\ getMirroredDirection("DOWN_LEFT") = "DOWN_RIGHT"
    /\ \A d \in {"UP", "DOWN", "ANY"} : getMirroredDirection(d) = d
    /\ \A k \in MirroredDoubles :
          LET leftCube == result.events[k].cubes[1]
              rightCube == result.events[k].cubes[2]
          IN  /\ rightCube.direction = Reflected(leftCube.direction)
              /\ rightCube.row = leftCube.row

\* two mirrored double blocks have been generated, one with the cubes
\* pointing down and to the outside, one with both cubes pointing the same way
C15_Witness ==
    /\ called
    /\ \E k \in MirroredDoubles :
          /\ result.events[k].cubes[1].direction = "DOWN_LEFT"
          /\ result.events[k].cubes[2].direction = "DOWN_RIGHT"
    /\ \E k \in MirroredDoubles :
          result.events[k].cubes[1].direction
              = result.events[k].cubes[2].direction

-----------------------------------------------------------------------------
(* App.tsx: handleHandUpdate *)

VELOCITY_HISTORY_SIZE == 8

\* a Vector3 | null
Null == [present |-> FALSE, at |-> Vec(0, 0, 0)]

Some(v) == [present |-> TRUE, at |-> v]

\* handDataRef.current and prevHands.current after mount; directions are in
\* thousandths.  prevHands.current.time is not kept: the handler reads it
\* only in the difference delta = now - prevHands.current.time, which the
\* model takes as the input.
InitialHands ==
    [handData |->
        [left |-> Null, right |-> Null,
         leftDirection |-> Vec(0, 1000, 0),
         rightDirection |-> Vec(0, 1000, 0),
         leftVelocity |-> Vec(0, 0, 0), rightVelocity |-> Vec(0, 0, 0),
         leftVelocityHistory |-> <<>>, rightVelocityHistory |-> <<>>],
     prevHands |-> [left |-> Null, right |-> Null]]

\* a history that is never trimmed
pushSampleUncapped(history, v) == Append(history, v)

\* history.push(v), and history.shift() when it has become longer than
\* VELOCITY_HISTORY_SIZE
pushSample(history, v) ==
    LET pushed == Append(history, v)
    IN  IF Len(pushed) > VELOCITY_HISTORY_SIZE THEN Tail(pushed) ELSE pushed

\* a test that lets the velocities be recomputed when time has run backwards
velocityDueUnlessZero(delta) == delta # 0

\* if (delta > 0)
velocityDue(delta) == delta > 0

\* subVectors(cur, prev).divideScalar(delta): positions in hundredths, delta
\* in time units, the velocity in tenths; the division is exact on the
\* samples used here
velocityBetween(cur, prev, delta) ==
    LET perTenth == Second \div 10
    IN  Vec(((cur.x - prev.x) * perTenth) \div delta,
            ((cur.y - prev.y) * perTenth) \div delta,
            ((cur.z - prev.z) * perTenth) \div delta)

\* the velocity and the history of one hand after the branch of delta > 0
trackHand(cur, prev, history, delta) ==
    IF cur.present /\ prev.present
    THEN LET newVel == velocityBetween(cur.at, prev.at, delta)
         IN  [velocity |-> newVel, history |-> pushSample(history, newVel)]
    ELSE [velocity |-> Vec(0, 0, 0), history |-> <<>>]

\* handDataRef.current and prevHands.current after the call
handleHandUpdate(s, left, right, leftDir, rightDir, delta) ==
    LET h == s.handData
        l == IF velocityDue(delta)
             THEN trackHand(left, s.prevHands.left, h.leftVelocityHistory,
                            delta)
             ELSE [velocity |-> h.leftVelocity,
                   history |-> h.leftVelocityHistory]
        r == IF velocityDue(delta)
             THEN trackHand(right, s.prevHands.right, h.rightVelocityHistory,
                            delta)
             ELSE [velocity |-> h.rightVelocity,
                   history |-> h.rightVelocityHistory]
    IN  [handData |->
            [left |-> left, right |-> right,
             leftDirection |-> IF leftDir.present THEN leftDir.at
                                                  ELSE h.leftDirection,
             rightDirection |-> IF rightDir.present THEN rightDir.at
                                                    ELSE h.rightDirection,
             leftVelocity |-> l.velocity, rightVelocity |-> r.velocity,
             leftVelocityHistory |-> l.history,
             rightVelocityHistory |-> r.history],
         prevHands |-> [left |-> left, right |-> right]]

-----------------------------------------------------------------------------
(* handleHandUpdate on sequences of samples *)

\* what HandTracker passes for one hand: the wrist and the direction to the
\* knuckle, or null for both
NoSample == [position |-> Null, direction |-> Null]

Sample(p, d) == [position |-> Some(p), direction |-> Some(d)]

LeftSamples ==
    {NoSample, Sample(Vec(-50, 100, 0), Vec(0, 1000, 0)),
     Sample(Vec(0, 100, 0), Vec(1000, 0, 0))}

RightSamples == {NoSample, Sample(Vec(50, 100, 0), Vec(0, 1000, 0))}

\* the samples of one call: the right hand is seen while the left hand is
\* away or at the first of its positions
HandUpdates ==
    {u \in [left : LeftSamples, right : RightSamples] :
        \/ u.right = NoSample
        \/ u.left \in {NoSample, Sample(Vec(-50, 100, 0), Vec(0, 1000, 0))}}

\* now - prevHands.current.time: an eighth of a second, nothing, and a clock
\* that has gone back an eighth of a second
UpdateDeltas == {Second \div 8, 0, -(Second \div 8)}

InitHands ==
    /\ probe = [left |-> NoSample, right |-> NoSample, delta |-> 0]
    /\ called = FALSE
    /\ result = [hands |-> InitialHands, evicted |-> FALSE]
    /\ InitGame(FALSE)

\* one call of handleHandUpdate; evicted: the call has pushed a sample on the
\* left history and shifted the oldest one out
HandsUpdate ==
    \E u \in HandUpdates, delta \in UpdateDeltas :
        LET left == u.left
            right == u.right
            after == handleHandUpdate(result.hands, left.position,
                                      right.position, left.direction,
                                      right.direction, delta)
            old == result.hands.handData.leftVelocityHistory
            new == after.handData.leftVelocityHistory
        IN  /\ probe' = [left |-> left, right |-> right, delta |-> delta]
            /\ called' = TRUE
            /\ result' =
                 [hands |-> after,
                  evicted |-> /\ delta > 0
                              /\ new # <<>>
                              /\ Len(new) = Len(old)]
            /\ UNCHANGED <<appVars, sceneVars, historyVars>>

NextHands == HandsUpdate

SpecHands == InitHands /\ [][NextHands]_vars

\* the histories are within the capacity
HistoryCapped ==
    /\ Len(result.hands.handData.leftVelocityHistory) <= VELOCITY_HISTORY_SIZE
    /\ Len(result.hands.handData.rightVelocityHistory) <= VELOCITY_HISTORY_SIZE

\* the history new is the history old with the sample v at its end, less its
\* oldest sample if that makes it longer than the capacity
Pushed(old, v, new) ==
    IF Len(old) < VELOCITY_HISTORY_SIZE
    THEN new = old \o <<v>>
    ELSE new = SubSeq(old, 2, Len(old)) \o <<v>>

\* a call that computes a velocity for a hand pushes it on the hand's history;
\* any other call leaves the history or empties it
HistoryStep ==
    LET before == result.hands
        after == result'.hands
        computed(now, prev) == probe'.delta > 0 /\ now.present /\ prev.present
    IN  /\ IF computed(probe'.left.position, before.prevHands.left)
           THEN Pushed(before.handData.leftVelocityHistory,
                       after.handData.leftVelocity,
                       after.handData.leftVelocityHistory)
           ELSE after.handData.leftVelocityHistory
                    \in {before.handData.leftVelocityHistory, <<>>}
        /\ IF computed(probe'.right.position, before.prevHands.right)
           THEN Pushed(before.handData.rightVelocityHistory,
                       after.handData.rightVelocity,
                       after.handData.rightVelocityHistory)
           ELSE after.handData.rightVelocityHistory
                    \in {before.handData.rightVelocityHistory, <<>>}

\* C16: each hand's velocityHistory has at most VELOCITY_HISTORY_SIZE entries;
\* a new sample goes to the end and the oldest one is removed when the
\* history would be longer than that.
C16_HistoryCapped == []HistoryCapped /\ [][HistoryStep]_vars

\* the left history is full and its oldest sample has just made way for a
\* sample with another velocity
C16_Witness ==
    /\ called
    /\ result.evicted
    /\ Len(result.hands.handData.leftVelocityHistory) = VELOCITY_HISTORY_SIZE
    /\ result.hands.handData.leftVelocityHistory[VELOCITY_HISTORY_SIZE]
           = Vec(40, 0, 0)
    /\ result.hands.handData.leftVelocityHistory[1] = Vec(-40, 0, 0)

\* C17: in every state reached by hand updates, whatever the samples and the
\* deltas, a hand whose position is absent has zero velocity and an empty
\* velocityHistory.
C17_AbsentHandAtRest ==
    LET h == result.hands.handData
    IN  /\ ~h.left.present =>
              /\ h.leftVelocity = Vec(0, 0, 0)
              /\ h.leftVelocityHistory = <<>>
        /\ ~h.right.present =>
              /\ h.rightVelocity = Vec(0, 0, 0)
              /\ h.rightVelocityHistory = <<>>

\* the same for the updates with delta > 0: the hand lost in such an update
\* is at rest after it
AbsentHandAtRestStep ==
    LET h == result'.hands.handData
    IN  probe'.delta > 0 =>
          /\ ~h.left.present =>
                /\ h.leftVelocity = Vec(0, 0, 0)
                /\ h.leftVelocityHistory = <<>>
          /\ ~h.right.present =>
                /\ h.rightVelocity = Vec(0, 0, 0)
                /\ h.rightVelocityHistory = <<>>

AbsentHandAtRestInTime == [][AbsentHandAtRestStep]_vars

\* an update with delta <= 0 keeps the velocities and the histories, and
\* stores the positions, the directions given and the previous samples
NoTimeStep ==
    LET before == result.hands
        after == result'.hands
        left == probe'.left
        right == probe'.right
    IN  probe'.delta <= 0 =>
          /\ after.handData.leftVelocity = before.handData.leftVelocity
          /\ after.handData.rightVelocity = before.handData.rightVelocity
          /\ after.handData.leftVelocityHistory
                = before.handData.leftVelocityHistory
          /\ after.handData.rightVelocityHistory
                = before.handData.rightVelocityHistory
          /\ after.handData.left = left.position
          /\ after.handData.right = right.position
          /\ after.handData.leftDirection =
                IF left.direction.present THEN left.direction.at
                ELSE before.handData.leftDirection
          /\ after.handData.rightDirection =
                IF right.direction.present THEN right.direction.at
                ELSE before.handData.rightDirection
          /\ after.prevHands = [left |-> left.position,
                                right |-> right.position]

\* C18: a hand update with delta <= 0 leaves the velocity and the history of
\* both hands as they were and only stores the positions, the directions and
\* the previous samples.
C18_NoTimeNoVelocity == [][NoTimeStep]_vars

\* an update with delta = 0 has moved the left hand back to its first
\* position and kept the velocity and the history of its move away from it
C18_Witness ==
    /\ called
    /\ probe.delta = 0
    /\ result.hands.handData.left = Some(Vec(-50, 100, 0))
    /\ result.hands.handData.leftVelocity = Vec(40, 0, 0)
    /\ result.hands.handData.leftVelocityHistory = <<Vec(40, 0, 0)>>

-----------------------------------------------------------------------------
(* GameScene.tsx: Saber, with handleHandUpdate *)

\* defaultPos, and currentPos after mount
saberRest(side) == Vec(IF side = "left" THEN -80 ELSE 80, 100, 0)

\* Vector3.lerp(v, alpha) with alpha = num / den: this += (v - this) * alpha,
\* rounded to the grid
lerp(this, v, num, den) ==
    Vec(this.x + Round((v.x - this.x) * num, den),
        this.y + Round((v.y - this.y) * num, den),
        this.z + Round((v.z - this.z) * num, den))

\* currentPos after the position smoothing of a Saber's frame callback; the
\* rotation and the light of the saber are left out
saberFrame(currentPos, targetPos, side, delta) ==
    IF targetPos.present
    THEN lerp(currentPos, targetPos.at, 25 * delta, Second)
    ELSE lerp(currentPos, saberRest(side), 5 * delta, Second)

\* a left hand held still away from where the left saber rests, or not seen
StillSamples == {NoSample, Sample(Vec(-30, 100, 0), Vec(0, 1000, 0))}

\* the delta of a frame at 50 and at 20 frames a second
FrameDeltas == {Second \div 50, Second \div 20}

\* atUpdate: the left saber's currentPos at the last call of handleHandUpdate
InitSaber ==
    /\ probe = [kind |-> "none", left |-> NoSample, delta |-> 0]
    /\ called = FALSE
    /\ result = [hands |-> InitialHands,
                 saber |-> [left |-> saberRest("left"),
                            right |-> saberRest("right")],
                 atUpdate |-> saberRest("left")]
    /\ InitGame(FALSE)

SaberHandsUpdate ==
    \E left \in StillSamples, delta \in UpdateDeltas :
        /\ probe' = [kind |-> "update", left |-> left, delta |-> delta]
        /\ called' = TRUE
        /\ result' =
             [result EXCEPT
                !.hands = handleHandUpdate(@, left.position, Null,
                                           left.direction, Null, delta),
                !.atUpdate = result.saber.left]
        /\ UNCHANGED <<appVars, sceneVars, historyVars>>

\* a frame: the frame callbacks of the two sabers
SaberFrame ==
    \E delta \in FrameDeltas :
        /\ probe' = [kind |-> "frame", left |-> NoSample, delta |-> delta]
        /\ called' = TRUE
        /\ result' =
             [result EXCEPT
                !.saber =
                    [left |-> saberFrame(@.left, result.hands.handData.left,
                                         "left", delta),
                     right |-> saberFrame(@.right,
                                          result.hands.handData.right,
                                          "right", delta)]]
        /\ UNCHANGED <<appVars, sceneVars, historyVars>>

NextSaber == SaberHandsUpdate \/ SaberFrame

SpecSaber == InitSaber /\ [][NextSaber]_vars

\* an update that computes the left velocity stores the displacement of the
\* smoothed position since the update before, over delta
SmoothedVelocityStep ==
    LET perTenth == Second \div 10
        v == result'.hands.handData.leftVelocity
        now == result.saber.left
        before == result.atUpdate
    IN  ( /\ probe'.kind = "update"
          /\ probe'.delta > 0
          /\ probe'.left.position.present
          /\ result.hands.prevHands.left.present )
        => /\ v.x * probe'.delta = (now.x - before.x) * perTenth
           /\ v.y * probe'.delta = (now.y - before.y) * perTenth
           /\ v.z * probe'.delta = (now.z - before.z) * perTenth

\* C19: the velocity stored for a tracked hand is the displacement of its
\* smoothed position since the update before, divided by dt: it is computed
\* from the smoothed trajectory, not from the raw samples.
C19_VelocityOfSmoothed == [][SmoothedVelocityStep]_vars

\* the distance of two points along the axes
AxisDistance(p, q) == Abs(p.x - q.x) + Abs(p.y - q.y) + Abs(p.z - q.z)

\* p is not past the target t on the way from the start s, on any axis
NotPast(s, p, t) ==
    /\ Sign(t.x - p.x) \in {0, Sign(t.x - s.x)}
    /\ Sign(t.y - p.y) \in {0, Sign(t.y - s.y)}
    /\ Sign(t.z - p.z) \in {0, Sign(t.z - s.z)}

\* a frame with the left hand tracked moves the left saber no farther from
\* the hand and not past it
SmoothingStep ==
    LET target == result.hands.handData.left
        s == result.saber.left
        p == result'.saber.left
    IN  (probe'.kind = "frame" /\ target.present)
        => /\ AxisDistance(p, target.at) <= AxisDistance(s, target.at)
           /\ NotPast(s, p, target.at)

\* C20: with a constant raw target and any dt > 0 a smoothing step moves the
\* smoothed position no farther from the target and never past it.
C20_SmoothingMonotone == [][SmoothingStep]_vars

-----------------------------------------------------------------------------
(* beatDetector: analyzeAudioBuffer.  Times are in samples (a second is     *)
(* sampleRate samples), amplitudes and energies in thousandths, intensities *)
(* in hundredths.  A buffer is given in blocks of hopSize equal samples,    *)
(* followed by `extra` samples of silence.                                  *)

windowSizeOf(sampleRate) == (sampleRate * 23) \div 1000

hopSizeOf(sampleRate) == windowSizeOf(sampleRate) \div 2

\* the amplitude of the block b, counted from 0; silence past the blocks
BlockAt(blocks, b) == IF b + 1 <= Len(blocks) THEN blocks[b + 1] ELSE 0

\* Math.sqrt(energy / windowSize) of the window that starts with block k
windowEnergy(blocks, k, sampleRate) ==
    LET w == windowSizeOf(sampleRate)
        hop == hopSizeOf(sampleRate)
        a0 == BlockAt(blocks, k)
        a1 == BlockAt(blocks, k + 1)
        a2 == BlockAt(blocks, k + 2)
    IN  Sqrt((hop * a0 * a0 + hop * a1 * a1 + (w - 2 * hop) * a2 * a2) \div w)

RECURSIVE Sum(_)
\* reduce((a, b) => a + b, 0)
Sum(list) == IF list = <<>> THEN 0 ELSE Head(list) + Sum(Tail(list))

energyHistorySize == 43

\* the elements of a finite set of integers, in ascending order
Ascending(S) ==
    [n \in 1..Cardinality(S) |->
        CHOOSE x \in S : Cardinality({y \in S : y <= x}) = n]

\* the loop over the windows: the windows start at the blocks 0, 1, .. while
\* i < channelData.length - windowSize; energyHistory holds the energies of
\* the window and of up to 42 windows before it, prevEnergy is the energy of
\* the window before (0 at first).  The onsets and the events it pushes.
onsetsOf(blocks, extra, sampleRate) ==
    LET w == windowSizeOf(sampleRate)
        hop == hopSizeOf(sampleRate)
        length == Len(blocks) * hop + extra
        windows == {k \in 0..Len(blocks) : k * hop < length - w}
        energy(k) == windowEnergy(blocks, k, sampleRate)
        history(k) ==
            LET size == Min(k + 1, energyHistorySize)
            IN  [n \in 1..size |-> energy(k - size + n)]
        prevEnergy(k) == IF k = 0 THEN 0 ELSE energy(k - 1)
        \* energy > avgEnergy * 1.5 and energy > prevEnergy * 1.3
        onset(k) ==
            /\ 10 * energy(k) * Len(history(k)) > 15 * Sum(history(k))
            /\ 10 * energy(k) > 13 * prevEnergy(k)
        found == Ascending({k \in windows : onset(k)})
    IN  [onsets |-> [n \in 1..Len(found) |-> found[n] * hop],
         events |-> [n \in 1..Len(found) |->
                        [time |-> found[n] * hop, type |-> "beat",
                         intensity |->
                             Min(energy(found[n]) \div 5, 100)]]]

RECURSIVE BeatsFrom(_, _, _, _)
\* the loop over the onsets: onset - lastBeatTime > 0.1
BeatsFrom(onsets, n, lastBeatTime, sampleRate) ==
    IF n > Len(onsets) THEN <<>>
    ELSE IF 10 * (onsets[n] - lastBeatTime) > sampleRate
         THEN <<onsets[n]>> \o BeatsFrom(onsets, n + 1, onsets[n], sampleRate)
         ELSE BeatsFrom(onsets, n + 1, lastBeatTime, sampleRate)

\* beats that are all the onsets
beatsOfEveryOnset(onsets, sampleRate) == onsets

\* the beats: the onsets more than 100 ms after the last beat, lastBeatTime
\* being -1 at first
beatsOf(onsets, sampleRate) == BeatsFrom(onsets, 1, -sampleRate, sampleRate)

\* the intervals of the first 50 beats that are between 0.25 s and 1.5 s
filteredIntervalsOf(beats, sampleRate) ==
    LET count == Min(Len(beats), 50) - 1
        intervals == [n \in 1..Max(count, 0) |-> beats[n + 1] - beats[n]]
    IN  SelectSeq(intervals,
                  LAMBDA d : 4 * d > sampleRate /\ 2 * d < 3 * sampleRate)

\* a BPM that falls back to an interval of a second
bpmOfSlowFallback(filteredIntervals, sampleRate) ==
    IF Len(filteredIntervals) > 0
    THEN Round(60 * sampleRate * Len(filteredIntervals),
               Sum(filteredIntervals))
    ELSE Round(60, 1)

\* Math.round(60 / avgInterval), avgInterval being 0.5 when no interval is
\* left
bpmOf(filteredIntervals, sampleRate) ==
    IF Len(filteredIntervals) > 0
    THEN Round(60 * sampleRate * Len(filteredIntervals),
               Sum(filteredIntervals))
    ELSE Round(60 * 2, 1)

\* the BeatMap analyzeAudioBuffer resolves with
analyzeAudioBuffer(blocks, extra, sampleRate) ==
    LET found == onsetsOf(blocks, extra, sampleRate)
        beats == beatsOf(found.onsets, sampleRate)
    IN  [bpm |-> bpmOf(filteredIntervalsOf(beats, sampleRate), sampleRate),
         beats |-> beats, onsets |-> found.onsets, events |-> found.events]

-----------------------------------------------------------------------------
(* analyzeAudioBuffer on silent buffers of every length and on long buffers *)
(* of silence with pulses                                                   *)

MaxBlocks == 80     \* buffers have 0 .. MaxBlocks blocks

\* the blocks a pulse can be in
PulseBlocks == {2, 5, 14, 40, 70}

BufferInputs ==
    {b \in [blocks : 0..MaxBlocks, pulses : SUBSET PulseBlocks,
            amplitude : {0, 300, 800}, extra : {0, 1}, sampleRate : {8000}] :
        /\ b.amplitude = 0 <=> b.pulses = {}
        /\ b.pulses # {} => b.blocks \in {MaxBlocks - 9, MaxBlocks}}

\* the blocks of the buffer: silence, and a block of the amplitude at each
\* pulse
BlocksOf(b) ==
    [n \in 1..b.blocks |-> IF (n - 1) \in b.pulses THEN b.amplitude ELSE 0]

InitBuffer ==
    /\ probe \in BufferInputs
    /\ called = FALSE
    /\ result = [bpm |-> 0, beats |-> <<>>, onsets |-> <<>>, events |-> <<>>]
    /\ InitGame(FALSE)

AnalyzeBuffer ==
    /\ ~called
    /\ called' = TRUE
    /\ result' = analyzeAudioBuffer(BlocksOf(probe), probe.extra,
                                    probe.sampleRate)
    /\ UNCHANGED <<probe, appVars, sceneVars, historyVars>>

NextBuffer == AnalyzeBuffer

SpecBuffer == InitBuffer /\ [][NextBuffer]_vars

\* C22: on an all-zero buffer of any length analyzeAudioBuffer returns no
\* onsets, no beats, no events and the fallback BPM 120.
C22_SilentBuffer ==
    (called /\ probe.pulses = {}) =>
        /\ result.onsets = <<>>
        /\ result.beats = <<>>
        /\ result.events = <<>>
        /\ result.bpm = 120

\* a silent buffer of many windows has been analyzed
C22_Witness ==
    /\ called
    /\ probe.pulses = {}
    /\ probe.blocks = MaxBlocks
    /\ result.bpm = 120

\* s is a subsequence of t, both strictly increasing
SubsequenceOf(s, t) ==
    /\ \A n \in 1..Len(s) : \E m \in 1..Len(t) : s[n] = t[m]
    /\ \A n \in 1..(Len(s) - 1) : s[n] < s[n + 1]
    /\ \A m \in 1..(Len(t) - 1) : t[m] < t[m + 1]

\* C23: in the BeatMap analyzeAudioBuffer returns the beats are a subsequence
\* of the onsets and strictly increasing, consecutive beats are more than
\* 0.1 s apart, and the first onset is a beat.
C23_BeatsApart ==
    called =>
        /\ SubsequenceOf(result.beats, result.onsets)
        /\ \A n \in 1..(Len(result.beats) - 1) :
              10 * (result.beats[n + 1] - result.beats[n]) > probe.sampleRate
        /\ result.onsets # <<>> =>
              /\ result.beats # <<>>
              /\ result.beats[1] = result.onsets[1]

\* an onset less than 0.1 s after a beat has been left out of the beats, and
\* a later one kept
C23_Witness ==
    /\ called
    /\ Len(result.onsets) = 3
    /\ Len(result.beats) = 2
    /\ result.beats[1] = result.onsets[1]
    /\ result.beats[2] = result.onsets[3]

-----------------------------------------------------------------------------
(* beatDetector: the class BeatDetector.  Times are in 1/800 s, energies    *)
(* are byte levels.  Every bin of a frame's frequencyData is at one level,  *)
(* so that calculateEnergy of each range is that level.                     *)

detectorHistorySize == 43

MaxBeatTimes == 20

\* the fields after construction; analyser is TRUE for an AnalyserNode
NewBeatDetector ==
    [analyser |-> FALSE, bassHistory |-> <<>>, beatTimes |-> <<>>,
     lastBassEnergy |-> 0, lastMidEnergy |-> 0, lastHighEnergy |-> 0,
     detectedBPM |-> 0]

connect(d) ==
    [d EXCEPT !.analyser = TRUE, !.bassHistory = <<>>, !.beatTimes = <<>>,
              !.lastBassEnergy = 0, !.lastMidEnergy = 0,
              !.lastHighEnergy = 0]

disconnect(d) == [d EXCEPT !.analyser = FALSE]

\* the intervals between beatTimes that are above 0.25 s and below 1.5 s
detectorIntervals(beatTimes) ==
    LET intervals == [n \in 1..(Len(beatTimes) - 1) |->
                         beatTimes[n + 1] - beatTimes[n]]
        kept(i) == 4 * i > Second /\ 2 * i < 3 * Second
    IN  SelectSeq(intervals, kept)

calculateBPM(beatTimes) ==
    IF Len(beatTimes) < 2 THEN 0
    ELSE LET filteredIntervals == detectorIntervals(beatTimes)
         IN  IF filteredIntervals = <<>> THEN 0
             ELSE Round(60 * Second * Len(filteredIntervals),
                        Sum(filteredIntervals))

\* analyze() of a frame whose bins are all at `level`, with performance.now()
\* at `now`: the detector afterwards.
analyze(d, level, now) ==
    IF ~d.analyser THEN d
    ELSE
    LET bassEnergy == level
        midEnergy == level
        highEnergy == level
        pushed == Append(d.bassHistory, bassEnergy)
        bassHistory == IF Len(pushed) > detectorHistorySize
                       THEN Tail(pushed) ELSE pushed
        \* bassEnergy > avgBassEnergy * 1.4 and > lastBassEnergy * 1.1
        kick == /\ 10 * bassEnergy * Len(bassHistory) > 14 * Sum(bassHistory)
                /\ 10 * bassEnergy > 11 * d.lastBassEnergy
        times == Append(d.beatTimes, now)
        beatTimes == IF ~kick THEN d.beatTimes
                     ELSE IF Len(times) > MaxBeatTimes THEN Tail(times)
                     ELSE times
    IN  [d EXCEPT !.bassHistory = bassHistory,
                  !.beatTimes = beatTimes,
                  !.detectedBPM = IF kick /\ Len(beatTimes) > 4
                                  THEN calculateBPM(beatTimes) ELSE @,
                  !.lastBassEnergy = bassEnergy,
                  !.lastMidEnergy = midEnergy,
                  !.lastHighEnergy = highEnergy]

getBPM(d) == d.detectedBPM

-----------------------------------------------------------------------------
(* a BeatDetector connected, disconnected and asked to analyze frames that  *)
(* come at a fixed rate                                                     *)

MaxFrames == 10     \* analyze() is called up to MaxFrames times

\* the time between two calls of analyze()
FrameGaps == {Second \div 10, (3 * Second) \div 10, 2 * Second}

\* the levels of a frame
FrameLevels == {0, 200}

InitDetector ==
    /\ probe \in [gap : FrameGaps]
    /\ called = FALSE
    /\ result = [detector |-> NewBeatDetector, now |-> 0, frames |-> 0]
    /\ InitGame(FALSE)

DetectorConnect ==
    /\ result' = [result EXCEPT !.detector = connect(@)]
    /\ UNCHANGED <<probe, called, appVars, sceneVars, historyVars>>

DetectorDisconnect ==
    /\ result.detector.analyser
    /\ result' = [result EXCEPT !.detector = disconnect(@)]
    /\ UNCHANGED <<probe, called, appVars, sceneVars, historyVars>>

DetectorAnalyze ==
    /\ result.frames < MaxFrames
    /\ \E level \in FrameLevels :
          LET now == result.now + probe.gap
          IN  result' = [detector |-> analyze(result.detector, level, now),
                         now |-> now, frames |-> result.frames + 1]
    /\ called' = TRUE
    /\ UNCHANGED <<probe, appVars, sceneVars, historyVars>>

NextDetector == DetectorConnect \/ DetectorDisconnect \/ DetectorAnalyze

SpecDetector == InitDetector /\ [][NextDetector]_vars

\* C21: the BPM the BeatDetector reports is a positive integer after any
\* sequence of connect() and analyze() calls, also before any kick.
C21_PositiveBPM == getBPM(result.detector) \in Nat \ {0}

\* five kicks have been detected and no interval between them is above
\* 0.25 s: calculateBPM has been called and has returned 0
C21_NoIntervalKept ==
    /\ Len(result.detector.beatTimes) > 4
    /\ detectorIntervals(result.detector.beatTimes) = <<>>
    /\ getBPM(result.detector) = 0

\* a tempo has been detected
C21_TempoDetected == getBPM(result.detector) > 0

\* the BPM analyzeAudioBuffer returns is a positive integer
C21_BufferBPM == called => result.bpm \in 40..240

-----------------------------------------------------------------------------
(* GameScene in a host that passes every prop, audioElement included, and  *)
(* whose song prop is null (currentSong = 0) or a song of SONGS for as long *)
(* as the scene is mounted.                                                 *)

MaxSceneSessions == 1   \* the host enters PLAYING at most this many times

\* an effect that makes a beat map of 120 BPM and 60 s without a song
sceneEffectDefaultSong(refs, songIndex, level, draws, list) ==
    IF songIndex = 0
    THEN startEffect(refs.generator, [bpm |-> 120, duration |-> 60], level,
                     draws, list)
    ELSE startEffect(refs.generator, SONGS[songIndex], level, draws, list)

\* The effect of CubeManager on [gameState, song, difficulty] when gameState
\* is PLAYING: without a song it leaves the generator, the refs and the cubes
\* state as they are.
sceneEffect(refs, songIndex, level, draws, list) ==
    IF songIndex = 0
    THEN [generator |-> refs.generator, spawnEvents |-> refs.spawnEvents,
          nextSpawnIndex |-> refs.nextSpawnIndex, cubes |-> list]
    ELSE startEffect(refs.generator, SONGS[songIndex], level, draws, list)

InitScene ==
    /\ IdlePure
    /\ gameState = "MENU"
    /\ score = 0 /\ streak = 0 /\ maxStreak = 0
    /\ perfectHits = 0 /\ totalHits = 0
    /\ currentSong \in {0, 1}
    /\ timeLeft = 0
    /\ difficulty = 1
    /\ timerArmed = FALSE /\ sinceTick = 0
    /\ audioPlaying = FALSE /\ audioTime = 0
    /\ wired = TRUE
    /\ shown = [gameState |-> "MENU", streak |-> 0]
    /\ generator = reset
    /\ spawnEvents = <<>>
    /\ nextSpawnIndex = 0
    /\ cubes = <<>>
    /\ mounted = <<>>
    /\ session = 0 /\ cleared = FALSE /\ log = <<>>
    /\ materialized = <<>>

\* the host enters PLAYING with the song it has, starts the audio and the
\* countdown as startGame does, and the render and effect follow
SceneStart ==
    /\ shown.gameState = "MENU"
    /\ session < MaxSceneSessions
    /\ \E draws \in DrawSeqs :
        \E effect \in {sceneEffect([generator |-> generator,
                                    spawnEvents |-> spawnEvents,
                                    nextSpawnIndex |-> nextSpawnIndex],
                                   currentSong, difficulty, draws, cubes)} :
            /\ score' = 0 /\ streak' = 0 /\ maxStreak' = 0
            /\ perfectHits' = 0 /\ totalHits' = 0
            /\ timeLeft' = 60
            /\ gameState' = "PLAYING"
            /\ audioPlaying' = TRUE /\ audioTime' = 0
            /\ timerArmed' = TRUE /\ sinceTick' = 0
            /\ shown' = [gameState |-> "PLAYING", streak |-> 0]
            /\ generator' = effect.generator
            /\ spawnEvents' = effect.spawnEvents
            /\ nextSpawnIndex' = effect.nextSpawnIndex
            /\ cubes' = effect.cubes
            /\ mounted' = reconcile(mounted, effect.cubes)
    /\ session' = session + 1
    /\ cleared' = (Len(mounted) > 0)
    /\ log' = <<>>
    /\ materialized' = <<>>
    /\ UNCHANGED <<scoreVars, currentSong, difficulty, wired>>

NextScene ==
    \/ SceneStart
    \/ RestartGame
    \/ TimerTick
    \/ AudioEnded
    \/ Frame
    \/ Render

SpecScene == InitScene /\ [][NextScene]_vars

\* no target has been spawned: no event has been materialized and there is
\* no cube, in the state or mounted
NothingSpawned ==
    /\ materialized = <<>>
    /\ cubes = <<>>
    /\ mounted = <<>>

-----------------------------------------------------------------------------
(* The game: a target that passes DESPAWN_Z *)

\* the entries a step adds to the log
Logged == SubSeq(log', Len(log) + 1, Len(log'))

\* a step in which targets are missed and none is hit
MissesOnly ==
    /\ Len(log') > Len(log)
    /\ SubSeq(log', 1, Len(log)) = log
    /\ \A k \in DOMAIN Logged : Logged[k].call = "miss"

\* the targets missed in such a step were pending and past DESPAWN_Z, each
\* has called onMiss once and has one entry in the log, none is left in the
\* cubes, and the streak is 0 with the other counters as they were
MissedOnceStep ==
    MissesOnly =>
        /\ \A k \in DOMAIN Logged :
              /\ Cardinality({j \in DOMAIN log' :
                                 Target(log'[j]) = Target(Logged[k])}) = 1
              /\ \E i \in DOMAIN mounted :
                    /\ Target(Logged[k])
                          = <<mounted[i].data.id, mounted[i].born>>
                    /\ ~mounted[i].hitRef
                    /\ mounted[i].calls = 0
                    /\ mounted'[i].hitRef
                    /\ mounted'[i].calls = 1
                    /\ mounted'[i].z > DESPAWN_Z * 100
              /\ \A c \in DOMAIN cubes' :
                    cubes'[c].data.id # Logged[k].id
        /\ streak' = 0
        /\ score' = score
        /\ maxStreak' = maxStreak
        /\ totalHits' = totalHits

\* C25: a pending target that passes DESPAWN_Z is marked missed exactly once:
\* one onMiss, the target out of the cubes, the streak at 0 and score,
\* maxStreak and totalHits unchanged.
C25_MissedOnce == [][MissedOnceStep]_vars

\* a target has been missed after a hit: the miss took a streak above 0 to 0
C25_Witness ==
    /\ log # <<>>
    /\ log[Len(log)].call = "miss"
    /\ streak = 0
    /\ maxStreak > 0
    /\ score > 0

-----------------------------------------------------------------------------
(* The game with a caller of startGame other than the PLAY button of the    *)
(* menu: the function is passed down as onStart and looks at currentSong    *)
(* and audioRef only.                                                       *)

\* startGame called while the game is PLAYING, and the render that follows:
\* setGameState(PLAYING) changes nothing, so that the effect of CubeManager
\* does not run; audio.load() takes the audio back to its start.
StartWhilePlaying ==
    /\ gameState = "PLAYING"
    /\ score' = 0 /\ streak' = 0 /\ maxStreak' = 0
    /\ perfectHits' = 0 /\ totalHits' = 0
    /\ timeLeft' = 60
    /\ gameState' = "PLAYING"
    /\ audioPlaying' = TRUE /\ audioTime' = 0
    /\ timerArmed' = TRUE /\ sinceTick' = 0
    /\ shown' = [gameState |-> "PLAYING", streak |-> 0]
    /\ mounted' = reconcile(mounted, cubes)
    /\ UNCHANGED <<scoreVars, currentSong, difficulty, wired, generator,
                   spawnEvents, nextSpawnIndex, cubes, historyVars>>

NextStart ==
    \/ StartGame
    \/ StartWhilePlaying
    \/ RestartGame
    \/ TimerTick
    \/ AudioEnded
    \/ Frame
    \/ Render

SpecStart == Init /\ [][NextStart]_vars

\* a call of startGame while PLAYING leaves the score, the streak counters,
\* the countdown and the live targets as they are
StartWhilePlayingStep ==
    StartWhilePlaying =>
        /\ score' = score
        /\ streak' = streak /\ maxStreak' = maxStreak
        /\ totalHits' = totalHits /\ perfectHits' = perfectHits
        /\ timeLeft' = timeLeft /\ sinceTick' = sinceTick
        /\ cubes' = cubes

-----------------------------------------------------------------------------
(* The game: where the phase changes *)

\* the interval callback and audio.onended leave the phase as it is
CallbackKeepsPhaseStep ==
    (TimerTick \/ AudioEnded) => gameState' = gameState

\* the phase goes to GAME_OVER in a frame
GameOverInFrameStep ==
    (gameState # "GAME_OVER" /\ gameState' = "GAME_OVER") => Frame

\* C27: the audio 'ended' callback and the countdown callback do not change
\* the phase themselves; the phase goes to GAME_OVER only inside a frame tick.
C27_PhaseChangesInFrame ==
    [][CallbackKeepsPhaseStep /\ GameOverInFrameStep]_vars

-----------------------------------------------------------------------------
(* generateFromBeatMap on beat maps without events, with an empty list of   *)
(* events, and with one event at an offset from every beat                  *)

\* the events field of the beat map: missing, empty, or an event per beat
EventKinds == {"none", "empty", "each"}

\* how far an event is from its beat: 0.05 s is Second \div 20
EventOffsets ==
    {0, Second \div 20 - 1, Second \div 20, 1 - Second \div 20,
     -(Second \div 20)}

IntensityDraws ==
    {PatternDraw(a, b, 20, 20, 10) : a \in {10, 70}, b \in {30, 80}}

InitIntensity ==
    /\ probe \in [kind : EventKinds, intensity : {0, 50, 70, 71, 100},
                   offset : EventOffsets, difficulty : {1, 3},
                   draws : [1..MaxPatternBeats -> IntensityDraws]]
    /\ called = FALSE
    /\ result = [generator |-> reset, events |-> <<>>]
    /\ InitGame(FALSE)

\* the beat map of the call: a beat a second
ProbedBeatMap ==
    [bpm |-> 60,
     beats |-> [k \in 1..MaxPatternBeats |-> (k - 1) * Second],
     hasEvents |-> (probe.kind # "none"),
     events |-> IF probe.kind # "each" THEN <<>>
                ELSE [k \in 1..MaxPatternBeats |->
                        [time |-> (k - 1) * Second + probe.offset,
                         intensity |-> probe.intensity]]]

GenerateIntensity ==
    /\ ~called
    /\ called' = TRUE
    /\ result' = generateFromBeatMap(reset, ProbedBeatMap, probe.difficulty,
                                     probe.draws)
    /\ UNCHANGED <<probe, appVars, sceneVars, historyVars>>

NextIntensity == GenerateIntensity

SpecIntensity == InitIntensity /\ [][NextIntensity]_vars

\* every beat of the beat map has an event less than 0.05 s from it
EventInReach ==
    /\ probe.kind = "each"
    /\ 20 * Abs(probe.offset) < Second

\* C28: an event has two targets only if the intensity for its beat is above
\* 0.7; where the beat map has no events, or no event less than 0.05 s from
\* the beat, the intensity is 0.5 and every event has one target.
C28_DoubleNeedsIntensity ==
    called =>
        /\ Len(result.events) = MaxPatternBeats
        /\ \A k \in DOMAIN result.events :
              /\ Len(result.events[k].cubes) \in {1, 2}
              /\ Len(result.events[k].cubes) = 2 =>
                    (EventInReach /\ probe.intensity > 70)
        /\ ~EventInReach =>
              \A k \in DOMAIN result.events :
                  /\ Len(result.events[k].cubes) = 1
                  /\ getIntensityForBeat(ProbedBeatMap,
                                         result.events[k].time) = 50
        /\ \A k \in DOMAIN SONGS :
              LET simple == generateSimpleBeatMap(SONGS[k].bpm,
                                                 SONGS[k].duration)
              IN  \A n \in DOMAIN simple.beats :
                      getIntensityForBeat(simple, simple.beats[n]) = 50

\* a double block on an event just inside 0.05 s and just above 0.7
C28_Witness ==
    /\ called
    /\ probe.kind = "each"
    /\ probe.offset = Second \div 20 - 1
    /\ probe.intensity = 71
    /\ Len(result.events[1].cubes) = 2
    /\ Len(result.events[2].cubes) = 1

\* a draw for a double block on an event of full intensity 0.05 s away
C28_OutOfReach ==
    /\ called
    /\ probe.kind = "each"
    /\ probe.offset = Second \div 20
    /\ probe.intensity = 100
    /\ probe.difficulty = 3
    /\ probe.draws[1]["double"] = 10

-----------------------------------------------------------------------------
(* generateFromBeatMap on beat lists of every spacing, each beat with an    *)
(* event of intensity 0.8                                                   *)

\* the draws of the odd and of the even beats: 0.1 makes a double block, 0.3
\* makes one at difficulty 2 and 3 and a left cube at difficulty 1, 0.7 makes
\* a right cube
EventDrawPairs == {<<10, 30>>, <<30, 70>>, <<70, 10>>, <<10, 10>>}

InitEvents ==
    /\ probe \in [beats : BeatLists, difficulty : 1..3,
                   pair : EventDrawPairs]
    /\ called = FALSE
    /\ result = [generator |-> reset, events |-> <<>>]
    /\ InitGame(FALSE)

GenerateEvents ==
    /\ ~called
    /\ called' = TRUE
    /\ result' =
          generateFromBeatMap(
              reset,
              [bpm |-> 120, beats |-> probe.beats, hasEvents |-> TRUE,
               events |-> [k \in 1..Len(probe.beats) |->
                             [time |-> probe.beats[k], intensity |-> 80]]],
              probe.difficulty,
              [k \in 1..Len(probe.beats) |->
                  UniformDraw(probe.pair[2 - (k % 2)])])
    /\ UNCHANGED <<probe, appVars, sceneVars, historyVars>>

NextEvents == GenerateEvents

SpecEvents == InitEvents /\ [][NextEvents]_vars

\* the beats the difficulty accepts
AcceptedBeats ==
    IF probe.difficulty >= 3 THEN probe.beats ELSE BeatsAt(GreedyKept)

\* C29: generateFromBeatMap returns one SpawnEvent for each accepted beat, in
\* the order of the beats and at the time of the beat; an event has one or
\* two targets, and an event of two has an orange one on the left half and a
\* cyan one on the right half.
C29_EventPerBeat ==
    called =>
        /\ EventTimes = AcceptedBeats
        /\ \A k \in DOMAIN result.events :
              LET targets == result.events[k].cubes
              IN  /\ Len(targets) \in {1, 2}
                  /\ \A c \in DOMAIN targets :
                        targets[c].spawnTime = result.events[k].time
                  /\ Len(targets) = 2 =>
                        /\ Cardinality({c \in DOMAIN targets :
                              /\ targets[c].color = "orange"
                              /\ targets[c].column \in {0, 1}}) = 1
                        /\ Cardinality({c \in DOMAIN targets :
                              /\ targets[c].color = "cyan"
                              /\ targets[c].column \in {2, 3}}) = 1

\* of four beats one has been dropped; the events have two targets, one and
\* two
C29_Witness ==
    /\ called
    /\ Len(probe.beats) = 4
    /\ Len(result.events) = 3
    /\ Len(result.events[1].cubes) = 2
    /\ Len(result.events[2].cubes) = 1
    /\ Len(result.events[3].cubes) = 2

-----------------------------------------------------------------------------
(* generateFromBeatMap: where the targets are *)

\* the targets of the events, in order
Targets ==
    LET RECURSIVE From(_)
        From(k) == IF k > Len(result.events) THEN <<>>
                   ELSE result.events[k].cubes \o From(k + 1)
    IN  From(1)

\* the column of the last target of a colour, or the column reset() leaves
LastColumnOf(color, initial) ==
    LET ofColor == SelectSeq(Targets, LAMBDA t : t.color = color)
    IN  IF ofColor = <<>> THEN initial ELSE ofColor[Len(ofColor)].column

\* C30: an orange target is in column 0 or 1 and a cyan one in column 2 or 3,
\* every row is 0, 1 or 2, the column the generator remembers for a side is
\* in the range of the side, and a target is at
\* (GRID_OFFSET_X + column * COLUMN_SPACING, GRID_OFFSET_Y + row * ROW_SPACING,
\* SPAWN_Z).
C30_TargetsOnGrid ==
    /\ \A k \in DOMAIN Targets :
          LET t == Targets[k]
          IN  /\ t.color \in {"orange", "cyan"}
              /\ t.color = "orange" => t.column \in {0, 1}
              /\ t.color = "cyan" => t.column \in {2, 3}
              /\ t.row \in {0, 1, 2}
              /\ t.position.x = GRID_OFFSET_X + t.column * COLUMN_SPACING
              /\ t.position.y = GRID_OFFSET_Y + t.row * ROW_SPACING
              /\ t.position.z = SPAWN_Z * 100
    /\ result.generator.lastLeftColumn \in {0, 1}
    /\ result.generator.lastRightColumn \in {2, 3}
    /\ result.generator.lastLeftColumn = LastColumnOf("orange", 0)
    /\ result.generator.lastRightColumn = LastColumnOf("cyan", 3)

\* two orange targets in column 1, the second one held there against a draw
\* to the right, in the top row
C30_Witness ==
    /\ called
    /\ Len(Targets) = 2
    /\ \A k \in DOMAIN Targets :
          /\ Targets[k].color = "orange"
          /\ Targets[k].column = 1
          /\ Targets[k].row = 2
    /\ probe.draws[2]["colA"] >= 70
    /\ probe.draws[2]["colB"] >= 50

------------------------------------------------------------------------

-----------------------------------------------------------------------------
(* One DirectionalCube from mount to its end, frame after frame, as         *)
(* CubeManager runs it: cubes short of, inside and past the collision       *)
(* window, with the hands away, slashing down or too slow, in the plane the *)
(* cube comes to                                                            *)

\* a frame takes the cube 1.5 units on
CubeFrameDelta == Second \div 8

CubeAdvance == (CUBE_SPEED * 100 * CubeFrameDelta) \div Second

\* where the cube is at first: its frames bring it to -2, to 3 and to
\* DESPAWN_Z, or just past them
CubeStarts ==
    {z - CubeAdvance : z \in {-200, -199, 149, 150, 200, 201}}

\* how far beside the cube the hands are
HandOffsets == {0, HIT_THRESHOLD - 1, HIT_THRESHOLD}

HandKinds == {"away", "slash", "slow"}

HandOfKind(kind, position) ==
    IF kind = "away" THEN NoHand
    ELSE Hand(position,
              IF kind = "slash" THEN Vec(0, -90, 0) ELSE Vec(0, -10, 0),
              <<>>)

\* the cube: in column 1, row 1, to be cut DOWN
CubeEntry(color) ==
    [data |-> CubeData(0, color, 0, "DOWN", 1, 1), born |-> 1]

NoArguments == [left |-> "away", right |-> "away", offset |-> 0]

InitCube ==
    /\ probe = NoArguments
    /\ called = FALSE
    /\ \E color \in {"cyan", "orange"}, z \in CubeStarts :
          result =
            [acc |-> [mounted |-> <<[Mount(CubeEntry(color)) EXCEPT !.z = z]>>,
                      cubes |-> <<CubeEntry(color)>>,
                      app |-> [score |-> 0, streak |-> 0, maxStreak |-> 0,
                               totalHits |-> 0],
                      log |-> <<>>],
             before |-> [Mount(CubeEntry(color)) EXCEPT !.z = z],
             call |-> "none", result |-> NoHit, rejected |-> FALSE]
    /\ InitGame(FALSE)

\* a frame: the hands are where the cube comes to
CubeFrame ==
    /\ \E left \in HandKinds, right \in HandKinds, offset \in HandOffsets :
        LET cube == result.acc.mounted[1]
            at == Vec(cube.data.position.x + offset, cube.data.position.y,
                      cube.z + CubeAdvance)
            h == [left |-> HandOfKind(left, at),
                  right |-> HandOfKind(right, at)]
            closure == [gameState |-> "PLAYING",
                        streak |-> result.acc.app.streak]
            step == cubeFrame(cube, CubeFrameDelta, h, closure.streak, 0)
            tested == /\ ~resolved(cube)
                      /\ cube.z + CubeAdvance > -200
                      /\ cube.z + CubeAdvance < 300
                      /\ (IF targetHand(cube.data.color) = "left"
                          THEN h.left ELSE h.right).present
                      /\ offset < HIT_THRESHOLD
        IN  /\ probe' = [left |-> left, right |-> right, offset |-> offset]
            /\ result' =
                 [acc |-> frameCubes(1, result.acc, CubeFrameDelta, h, 0,
                                     closure),
                  before |-> cube,
                  call |-> step.call, result |-> step.result,
                  rejected |-> result.rejected
                                  \/ (tested /\ ~step.result.hit)]
    /\ called' = TRUE
    /\ UNCHANGED <<appVars, sceneVars, historyVars>>

NextCube == CubeFrame

SpecCube == InitCube /\ [][NextCube]_vars

\* the cube after the last frame
TheCube == result.acc.mounted[1]

\* the last frame found the cube pending and brought it strictly between -2
\* and 3, the hand of its colour (left for cyan, right for orange) was
\* tracked, and the cube was less than HIT_THRESHOLD from it
InCollisionWindow ==
    /\ called
    /\ ~result.before.hitRef
    /\ result.before.z + CubeAdvance > -200
    /\ result.before.z + CubeAdvance < 300
    /\ (IF TheCube.data.color = "cyan" THEN probe.left ELSE probe.right)
          # "away"
    /\ probe.offset < HIT_THRESHOLD

\* C31: a target is hit only in a frame in which its z is strictly between
\* -2 and 3, the hand of its colour is tracked and the target is less than
\* HIT_THRESHOLD from that hand; in every other frame nothing is scored.
C31_HitOnlyInWindow ==
    called =>
        /\ result.call = "hit" => InCollisionWindow
        /\ result.result.hit => InCollisionWindow
        /\ ~InCollisionWindow =>
              /\ result.result = NoHit
              /\ result.call # "hit"

\* a cyan cube has been hit at z = 2.99, 0.99 from the left hand, with the
\* right hand away
C31_Witness ==
    /\ called
    /\ TheCube.data.color = "cyan"
    /\ TheCube.z = 299
    /\ probe.offset = HIT_THRESHOLD - 1
    /\ probe.right = "away"
    /\ result.call = "hit"
    /\ TheCube.hitRef

\* the frame of the step tests the cube and the slash is rejected
Rejection == InCollisionWindow' /\ ~result'.result.hit

\* a rejection leaves the cube pending and in the cubes, calls neither onHit
\* nor onMiss and leaves the counters as they are
RejectedStep ==
    Rejection =>
        /\ result'.call = "none"
        /\ ~TheCube'.hitRef
        /\ TheCube'.calls = 0
        /\ TheCube'.z = TheCube.z + CubeAdvance
        /\ result'.acc.cubes = result.acc.cubes
        /\ result'.acc.cubes # <<>>
        /\ result'.acc.app = result.acc.app
        /\ result'.acc.log = result.acc.log

\* a pending cube is not past DESPAWN_Z: the frame that takes it there calls
\* onMiss
PendingShortOfDespawn ==
    ~TheCube.hitRef =>
        /\ TheCube.z <= DESPAWN_Z * 100
        /\ result.acc.log = <<>>

\* C32: a rejected evaluation changes nothing: the target stays pending and
\* live, the counters stay, nothing is called; the target can be hit in a
\* later frame of its window and is missed at the despawn plane otherwise.
C32_RejectionChangesNothing ==
    []PendingShortOfDespawn /\ [][RejectedStep]_vars

\* a cube has been hit in a frame after one that rejected a slash at it
C32_Witness ==
    /\ result.rejected
    /\ result.call = "hit"
    /\ result.acc.app.totalHits = 1

\* a cube has been missed after a frame that rejected a slash at it
C32_RejectedThenMissed ==
    /\ result.rejected
    /\ result.call = "miss"
    /\ result.acc.cubes = <<>>

-----------------------------------------------------------------------------
(* calculateHitScore: where the combo multiplier reaches its maximum *)

\* the streak at which floor(streak / STEP) * 0.1 is MAX - 1
FullComboStreak == COMBO_MULTIPLIER_STEP * 10 * (MAX_COMBO_MULTIPLIER - 1)

-----------------------------------------------------------------------------
(* The counters of App over the hits and misses of a session, in a host     *)
(* that passes GameScene the streak: handleCubeHit calls onScore with the   *)
(* score of the HitResult and the HitResult, App.handleScore takes the      *)
(* points.  Between two calls React has rendered the streak.                *)

MaxHits == 11       \* a session has up to MaxHits hits and misses

\* the slashes that hit: the best one at the centre of the cube (perfect) and
\* 0.6 from it (not perfect)
HitSlashes == {[velocity |-> BestSlash, distance |-> 0],
               [velocity |-> BestSlash, distance |-> 60]}

InitHits ==
    /\ probe = [velocity |-> BestSlash, distance |-> 0]
    /\ called = FALSE
    /\ result = [app |-> [score |-> 0, streak |-> 0, maxStreak |-> 0,
                          totalHits |-> 0],
                 perfectHits |-> 0,
                 results |-> <<>>]
    /\ InitGame(FALSE)

\* a cube is hit: calculateHitScore with the streak prop, then onScore.
\* results collects the HitResults; handleScore does not call setPerfectHits.
SessionHit ==
    /\ result.app.totalHits < MaxHits
    /\ \E slash \in HitSlashes :
          LET hit == calculateHitScore(slash.velocity, "UP", slash.distance,
                                       result.app.streak, 0)
          IN  /\ hit.hit
              /\ probe' = slash
              /\ result' = [result EXCEPT
                              !.app = handleScore(@, hit.score,
                                                  result.app.streak),
                              !.results = Append(@, hit)]
    /\ called' = TRUE
    /\ UNCHANGED <<appVars, sceneVars, historyVars>>

\* a cube is missed: onMiss
SessionMiss ==
    /\ result.app.streak > 0
    /\ result' = [result EXCEPT !.app = handleMiss(@)]
    /\ UNCHANGED <<probe, called, appVars, sceneVars, historyVars>>

NextHits == SessionHit \/ SessionMiss

SpecHits == InitHits /\ [][NextHits]_vars

\* the sum of the scores of the HitResults, in tenths of a point as the score
ResultScores == 10 * Sum([k \in DOMAIN result.results |->
                             result.results[k].score])

\* the number of HitResults with perfectHit
PerfectResults ==
    Cardinality({k \in DOMAIN result.results : result.results[k].perfectHit})

\* C34: the score of the session is the sum of the scores of the HitResults
\* of its hits: a hit adds the score of its HitResult, in which the combo
\* multiplier is applied once.
C34_ScoreIsSumOfResults == result.app.score = ResultScores

\* C35: perfectHits is the number of hits whose HitResult has perfectHit, and
\* it is at most totalHits.
C35_PerfectHitsCounted ==
    /\ result.perfectHits = PerfectResults
    /\ result.perfectHits <= result.app.totalHits

-----------------------------------------------------------------------------
(* The counters after the end of a session *)

\* a step from GAME_OVER to GAME_OVER leaves the counters of App alone
CountersKeptStep ==
    (gameState = "GAME_OVER" /\ gameState' = "GAME_OVER")
        => UNCHANGED <<score, streak, maxStreak, totalHits>>

-----------------------------------------------------------------------------
(* audio8bit: the background music of Audio8Bit.  Notes are in hundredths   *)
(* of a hertz (0 is a rest), durations in time units.  A gain node is known  *)
(* by the number of the startBackgroundMusic call that created it (0 is      *)
(* null), a loop by the number of the call that started it; the window's     *)
(* timers are records of what they call and of the time left to them.        *)

Note(note, duration) == [note |-> note, duration |-> duration]

TRACK_PATTERNS ==
    ("1" :>
        [melody |->
              <<Note(52325, 160), Note(58733, 160), Note(65925, 160),
                Note(78399, 320), Note(65925, 160), Note(58733, 160),
                Note(52325, 320), Note(39200, 320)>>,
         bass |->
              <<Note(13081, 640), Note(19600, 640), Note(14683, 640),
                Note(13081, 640)>>]) @@
    ("2" :>
        [melody |->
              <<Note(39200, 120), Note(0, 40), Note(39200, 80),
                Note(44000, 160), Note(49388, 120), Note(52325, 120),
                Note(0, 80), Note(58733, 160), Note(52325, 80),
                Note(49388, 80), Note(44000, 240), Note(39200, 80),
                Note(32963, 240)>>,
         bass |->
              <<Note(9800, 160), Note(0, 80), Note(9800, 80),
                Note(11000, 320), Note(12347, 160), Note(0, 80),
                Note(11000, 160), Note(9800, 240), Note(8241, 320)>>]) @@
    ("3" :>
        [melody |->
              <<Note(65925, 80), Note(78399, 80), Note(98777, 80),
                Note(117466, 160), Note(98777, 80), Note(78399, 80),
                Note(65925, 80), Note(58733, 80), Note(65925, 80),
                Note(78399, 120), Note(88000, 120), Note(78399, 80),
                Note(65925, 120), Note(52325, 160), Note(58733, 80),
                Note(65925, 160)>>,
         bass |->
              <<Note(16481, 120), Note(19600, 120), Note(24694, 120),
                Note(19600, 120), Note(17461, 120), Note(19600, 120),
                Note(22000, 240), Note(16481, 160), Note(13081, 240),
                Note(14683, 160), Note(16481, 240)>>])

\* TRACK_PATTERNS[songId] || TRACK_PATTERNS['1']
patternOf(songId) ==
    IF songId \in DOMAIN TRACK_PATTERNS THEN TRACK_PATTERNS[songId]
    ELSE TRACK_PATTERNS["1"]

\* the notes of a pattern that are no rests: the oscillators of one pass
sounding(pattern) == Cardinality({k \in DOMAIN pattern : pattern[k].note # 0})

\* pattern.reduce((sum, note) => sum + note.duration, 0)
patternDuration(pattern) == Sum([k \in DOMAIN pattern |-> pattern[k].duration])

\* Audio8Bit after construction, with the timers of the window and, as
\* history, the loops that have scheduled notes into the present gain node
NewAudio8Bit ==
    [bgMusicGain |-> 0, bgMusicNodes |-> 0, timers |-> {}, onGain |-> {}]

\* loopMusic ("melody") and loopBass ("bass") of the loop that the call
\* number loop started for the song: one pass
loopPass(a, voice, loop, songId) ==
    IF a.bgMusicGain = 0 THEN a
    ELSE LET pattern == patternOf(songId)[voice]
         IN  [a EXCEPT
                !.bgMusicNodes = @ + sounding(pattern),
                !.onGain = @ \cup {[voice |-> voice, loop |-> loop]},
                !.timers = @ \cup {[voice |-> voice, loop |-> loop,
                                    songId |-> songId,
                                    left |-> patternDuration(pattern)]}]

stopBackgroundMusic(a) ==
    [a EXCEPT !.bgMusicNodes = 0, !.bgMusicGain = 0, !.onGain = {}]

\* startBackgroundMusic(songId), the call number loop
startBackgroundMusic(a, songId, loop) ==
    LET stopped == IF a.bgMusicNodes > 0 THEN stopBackgroundMusic(a) ELSE a
        created == [stopped EXCEPT !.bgMusicGain = loop, !.onGain = {}]
    IN  loopPass(loopPass(created, "melody", loop, songId),
                 "bass", loop, songId)

\* a timer of the window fires: setTimeout(() => loopMusic(), ...)
fireTimer(a, timer) ==
    loopPass([a EXCEPT !.timers = @ \ {timer}],
             timer.voice, timer.loop, timer.songId)

\* the time d passes
passTime(timers, d) == {[t EXCEPT !.left = @ - d] : t \in timers}

MaxStarts == 3      \* startBackgroundMusic is called at most MaxStarts times

MaxNodes == 60      \* bgMusicNodes holds at most MaxNodes oscillators

\* ids of songs of SONGS and one that has no pattern
MusicSongIds == {"1", "3", "4"}

\* the calls come at any time: half a second from the last step or when the
\* next timer is due
MusicDeltas == {Second \div 2}

InitMusic ==
    /\ probe = [call |-> "new", songId |-> "1"]
    /\ called = FALSE
    /\ result = [audio |-> NewAudio8Bit, starts |-> 0]
    /\ InitGame(FALSE)

MusicStart ==
    /\ result.starts < MaxStarts
    /\ \E songId \in MusicSongIds :
        /\ probe' = [call |-> "start", songId |-> songId]
        /\ result' = [audio |-> startBackgroundMusic(result.audio, songId,
                                                     result.starts + 1),
                      starts |-> result.starts + 1]
    /\ called' = TRUE
    /\ UNCHANGED <<appVars, sceneVars, historyVars>>

MusicStop ==
    /\ called
    /\ probe' = [call |-> "stop", songId |-> probe.songId]
    /\ result' = [result EXCEPT !.audio = stopBackgroundMusic(@)]
    /\ UNCHANGED <<called, appVars, sceneVars, historyVars>>

MusicTimer ==
    /\ \E timer \in result.audio.timers :
        /\ timer.left = 0
        /\ fireTimer(result.audio, timer).bgMusicNodes <= MaxNodes
        /\ probe' = [call |-> timer.voice, songId |-> timer.songId]
        /\ result' = [result EXCEPT !.audio = fireTimer(@, timer)]
    /\ UNCHANGED <<called, appVars, sceneVars, historyVars>>

MusicPass ==
    /\ result.audio.timers # {}
    /\ \E d \in MusicDeltas \cup {t.left : t \in result.audio.timers} :
        /\ d > 0
        /\ \A t \in result.audio.timers : d <= t.left
        /\ result' = [result EXCEPT !.audio.timers = passTime(@, d)]
    /\ UNCHANGED <<probe, called, appVars, sceneVars, historyVars>>

NextMusic == MusicStart \/ MusicStop \/ MusicTimer \/ MusicPass

SpecMusic == InitMusic /\ [][NextMusic]_vars

\* the loops of a voice that have scheduled notes into the present gain node
LoopsOn(voice) == {l \in result.audio.onGain : l.voice = voice}

\* C37: after any interleaving of startBackgroundMusic, stopBackgroundMusic
\* and loop timers, at most one melody loop and at most one bass loop
\* schedule notes: a loop whose timer was armed before a stop does not
\* schedule again after a later start, and while the music is stopped no loop
\* schedules a note.
C37_OneLoopPerVoice ==
    /\ Cardinality(LoopsOn("melody")) <= 1
    /\ Cardinality(LoopsOn("bass")) <= 1
    /\ result.audio.bgMusicGain = 0 => result.audio.bgMusicNodes = 0


-----------------------------------------------------------------------------
(* audio8bit: the track preview of Audio8Bit.  The preview gain node is      *)
(* known by the number of the playTrackPreview call that created it (0 is    *)
(* null), null ids are 0 and the null song id is the empty string; timers    *)
(* are the window's: setTimeout hands out the ids 1, 2, ... in turn.         *)

NewPreview ==
    [previewGain |-> 0, previewNodes |-> 0, previewTimeouts |-> {},
     previewAutoStopTimeout |-> 0, currentPreviewSongId |-> "",
     isPreviewPlaying |-> FALSE, timers |-> {}, nextTimer |-> 1,
     onGain |-> {}, ended |-> FALSE]

PREVIEW_AUTO_STOP == 6 * Second

\* stopTrackPreview that leaves the timers of the loops armed
stopTrackPreviewKeepsLoops(a) ==
    [a EXCEPT
        !.timers = {t \in @ : t.id # a.previewAutoStopTimeout},
        !.previewAutoStopTimeout = 0,
        !.previewTimeouts = {},
        !.previewNodes = 0,
        !.previewGain = 0,
        !.currentPreviewSongId = "",
        !.isPreviewPlaying = FALSE,
        !.onGain = {},
        !.ended = a.isPreviewPlaying]

\* stopTrackPreview(); ended tells whether it called onPreviewEndCallback
stopTrackPreview(a) ==
    [a EXCEPT
        !.timers = {t \in @ : /\ t.id # a.previewAutoStopTimeout
                              /\ t.id \notin a.previewTimeouts},
        !.previewAutoStopTimeout = 0,
        !.previewTimeouts = {},
        !.previewNodes = 0,
        !.previewGain = 0,
        !.currentPreviewSongId = "",
        !.isPreviewPlaying = FALSE,
        !.onGain = {},
        !.ended = a.isPreviewPlaying]

isPreviewPlayingForSong(a, songId) ==
    a.isPreviewPlaying /\ a.currentPreviewSongId = songId

\* loopMusic ("melody") and loopBass ("bass") of schedulePreviewMelodyLoop
\* and schedulePreviewBassLoop, for the loop that the call number loop
\* started: one pass
previewLoopPass(a, voice, loop, songId) ==
    IF a.previewGain = 0 \/ ~a.isPreviewPlaying THEN a
    ELSE LET pattern == patternOf(songId)[voice]
         IN  [a EXCEPT
                !.previewNodes = @ + sounding(pattern),
                !.onGain = @ \cup {[voice |-> voice, loop |-> loop]},
                !.timers = @ \cup {[id |-> a.nextTimer, voice |-> voice,
                                    loop |-> loop, songId |-> songId,
                                    left |-> patternDuration(pattern)]},
                !.previewTimeouts = @ \cup {a.nextTimer},
                !.nextTimer = @ + 1]

\* playTrackPreview(songId), the call number loop: the object after it and
\* the value it returns
playTrackPreview(a, songId, loop) ==
    IF a.isPreviewPlaying /\ a.currentPreviewSongId = songId
    THEN [audio |-> stopTrackPreview(a), returned |-> FALSE]
    ELSE LET stopped == stopTrackPreview(a)
             created == [stopped EXCEPT !.previewGain = loop,
                                        !.currentPreviewSongId = songId,
                                        !.isPreviewPlaying = TRUE]
             looping == previewLoopPass(
                            previewLoopPass(created, "melody", loop, songId),
                            "bass", loop, songId)
         IN  [audio |-> [looping EXCEPT
                            !.previewAutoStopTimeout = looping.nextTimer,
                            !.timers = @ \cup
                                {[id |-> looping.nextTimer, voice |-> "auto",
                                  loop |-> loop, songId |-> songId,
                                  left |-> PREVIEW_AUTO_STOP]},
                            !.nextTimer = @ + 1],
              returned |-> TRUE]

\* a timer of the window fires: a loop's next pass or the auto-stop
firePreviewTimer(a, timer) ==
    LET fired == [a EXCEPT !.timers = @ \ {timer}]
    IN  IF timer.voice = "auto" THEN stopTrackPreview(fired)
        ELSE previewLoopPass(fired, timer.voice, timer.loop, timer.songId)

MaxPreviews == 3    \* playTrackPreview is called at most MaxPreviews times

\* ids of songs of SONGS and one that has no pattern
PreviewSongIds == {"1", "3", "4"}

\* what a call found: the song that was previewing
Found(a) == a.currentPreviewSongId

InitPreview ==
    /\ probe = [call |-> "new", songId |-> "", found |-> ""]
    /\ called = FALSE
    /\ result = [audio |-> NewPreview, plays |-> 0, returned |-> FALSE]
    /\ InitGame(FALSE)

PreviewPlay ==
    /\ result.plays < MaxPreviews
    /\ \E songId \in PreviewSongIds :
        LET play == playTrackPreview(result.audio, songId, result.plays + 1)
        IN  /\ probe' = [call |-> "play", songId |-> songId,
                         found |-> Found(result.audio)]
            /\ result' = [audio |-> play.audio, plays |-> result.plays + 1,
                          returned |-> play.returned]
    /\ called' = TRUE
    /\ UNCHANGED <<appVars, sceneVars, historyVars>>

PreviewStop ==
    /\ called
    /\ probe' = [call |-> "stop", songId |-> "",
                 found |-> Found(result.audio)]
    /\ result' = [result EXCEPT !.audio = stopTrackPreview(@)]
    /\ UNCHANGED <<called, appVars, sceneVars, historyVars>>

PreviewTimer ==
    /\ \E timer \in result.audio.timers :
        /\ timer.left = 0
        /\ probe' = [call |-> timer.voice, songId |-> timer.songId,
                     found |-> Found(result.audio)]
        /\ result' = [result EXCEPT !.audio = firePreviewTimer(@, timer)]
    /\ UNCHANGED <<called, appVars, sceneVars, historyVars>>

PreviewPass ==
    /\ result.audio.timers # {}
    /\ \E d \in MusicDeltas \cup {t.left : t \in result.audio.timers} :
        /\ d > 0
        /\ \A t \in result.audio.timers : d <= t.left
        /\ result' = [result EXCEPT !.audio.timers = passTime(@, d)]
    /\ UNCHANGED <<probe, called, appVars, sceneVars, historyVars>>

NextPreview == PreviewPlay \/ PreviewStop \/ PreviewTimer \/ PreviewPass

SpecPreview == InitPreview /\ [][NextPreview]_vars

\* no preview is on: the flag is down, no timer of a preview is armed and no
\* loop has a gain node or a note in it
PreviewOff ==
    /\ ~result.audio.isPreviewPlaying
    /\ result.audio.timers = {}
    /\ result.audio.previewAutoStopTimeout = 0
    /\ result.audio.previewGain = 0
    /\ result.audio.previewNodes = 0
    /\ \A s \in PreviewSongIds : ~isPreviewPlayingForSong(result.audio, s)

\* the preview of one song is on, and what is armed and what schedules notes
\* is of the last playTrackPreview call: its two loops and its auto-stop
PreviewOn(songId) ==
    /\ \A s \in PreviewSongIds :
          isPreviewPlayingForSong(result.audio, s) <=> s = songId
    /\ result.audio.previewGain = result.plays
    /\ \A t \in result.audio.timers :
          t.loop = result.plays /\ t.songId = songId
    /\ \A l \in result.audio.onGain : l.loop = result.plays
    /\ \A voice \in {"melody", "bass", "auto"} :
          Cardinality({t \in result.audio.timers : t.voice = voice}) <= 1
    /\ \E t \in result.audio.timers :
          t.voice = "auto" /\ t.id = result.audio.previewAutoStopTimeout

\* C38: at most one track preview is on.  playTrackPreview(id) while id is
\* previewing stops it and returns false; otherwise it stops any other
\* preview, starts that of id and returns true.  After a preview has stopped
\* (by stopTrackPreview, the toggle, a replacement or the auto-stop after 6 s)
\* none of its timers is armed, none of its loops schedules a note and
\* isPreviewPlayingForSong is false for its song.
C38_OnePreview ==
    /\ PreviewOff \/ \E s \in PreviewSongIds : PreviewOn(s)
    /\ probe.call = "play" /\ probe.found = probe.songId
          => ~result.returned /\ PreviewOff
    /\ probe.call = "play" /\ probe.found # probe.songId
          => result.returned /\ PreviewOn(probe.songId)
    /\ probe.call \in {"stop", "auto"} => PreviewOff
    /\ probe.call \in {"play", "stop", "auto"} /\ probe.found # ""
          => ~isPreviewPlayingForSong(result.audio, probe.found)

\* a preview has replaced that of another song and one of its loops has come
\* round
C38_Witness ==
    /\ result.plays >= 2
    /\ probe.call = "melody"
    /\ probe.found # ""
    /\ PreviewOn(probe.found)
    /\ result.audio.nextTimer > 7

\* the auto-stop has ended a preview
C38_AutoStopped ==
    /\ probe.call = "auto"
    /\ probe.found = probe.songId
    /\ result.audio.ended
    /\ PreviewOff

\* the toggle has ended a preview
C38_Toggled ==
    /\ probe.call = "play"
    /\ probe.found = probe.songId
    /\ ~result.returned
    /\ PreviewOff


-----------------------------------------------------------------------------
(* App.tsx: the countdown.  The interval timers of the window are known by   *)
(* their ids, 1, 2, ... in the order of the setInterval calls; the null ref  *)
(* is 0.  ticks counts the interval callbacks of the present session.        *)

GAME_SECONDS == 60

NewCountdown ==
    [gameState |-> "MENU", timeLeft |-> 0, timerIntervalRef |-> 0,
     intervals |-> {}, audioPlaying |-> FALSE, games |-> 0, ticks |-> 0]

\* stopGame that leaves the interval armed
stopGameKeepsInterval(a) ==
    [a EXCEPT !.audioPlaying = FALSE, !.gameState = "GAME_OVER"]

stopGame(a) ==
    [a EXCEPT !.intervals = @ \ {a.timerIntervalRef},
              !.audioPlaying = FALSE,
              !.gameState = "GAME_OVER"]

\* startGame(): there is a song and an audio element
startGame(a) ==
    [a EXCEPT !.timeLeft = GAME_SECONDS,
              !.gameState = "PLAYING",
              !.audioPlaying = TRUE,
              !.intervals = (@ \ {a.timerIntervalRef}) \cup {a.games + 1},
              !.timerIntervalRef = a.games + 1,
              !.games = @ + 1,
              !.ticks = 0]

restartGame(a) ==
    [a EXCEPT !.gameState = "MENU",
              !.audioPlaying = FALSE,
              !.intervals = @ \ {a.timerIntervalRef}]

\* the callback of the interval: setTimeLeft(prev => ...)
intervalCallback(a) ==
    IF a.timeLeft <= 1
    THEN [stopGame(a) EXCEPT !.timeLeft = 0, !.ticks = @ + 1]
    ELSE [a EXCEPT !.timeLeft = @ - 1, !.ticks = @ + 1]

MaxGames == 2       \* startGame is called at most MaxGames times

InitCountdown ==
    /\ probe = [call |-> "new"]
    /\ called = FALSE
    /\ result = NewCountdown
    /\ InitGame(FALSE)

\* the PLAY button, which the menu shows
CountdownStart ==
    /\ result.gameState = "MENU"
    /\ result.games < MaxGames
    /\ probe' = [call |-> "startGame"]
    /\ result' = startGame(result)
    /\ called' = TRUE
    /\ UNCHANGED <<appVars, sceneVars, historyVars>>

\* the REPLAY button, which the game-over screen shows
CountdownRestart ==
    /\ result.gameState = "GAME_OVER"
    /\ probe' = [call |-> "restartGame"]
    /\ result' = restartGame(result)
    /\ UNCHANGED <<called, appVars, sceneVars, historyVars>>

\* an armed interval fires
CountdownTick ==
    /\ \E id \in result.intervals :
        /\ probe' = [call |-> "tick"]
        /\ result' = intervalCallback(result)
    /\ UNCHANGED <<called, appVars, sceneVars, historyVars>>

\* audio.onended
CountdownAudioEnded ==
    /\ result.audioPlaying
    /\ probe' = [call |-> "ended"]
    /\ result' = stopGame(result)
    /\ UNCHANGED <<called, appVars, sceneVars, historyVars>>

NextCountdown ==
    CountdownStart \/ CountdownRestart \/ CountdownTick \/ CountdownAudioEnded

SpecCountdown == InitCountdown /\ [][NextCountdown]_vars

\* the window fires an armed interval every second
FairCountdown == SpecCountdown /\ WF_vars(CountdownTick)

\* one interval at most is armed, and none but in PLAYING; in PLAYING
\* timeLeft is what the ticks of the session have left of the 60 seconds
CountdownInv ==
    /\ Cardinality(result.intervals) <= 1
    /\ result.gameState # "PLAYING" => result.intervals = {}
    /\ result.timeLeft \in 0..GAME_SECONDS
    /\ result.ticks <= GAME_SECONDS
    /\ result.gameState = "PLAYING"
          => /\ result.intervals = {result.timerIntervalRef}
             /\ result.timeLeft = GAME_SECONDS - result.ticks
             /\ result.timeLeft >= 1

\* a tick takes one second off, and the one that takes the last ends the
\* game and disarms the interval; no tick comes after stopGame or restartGame
CountdownStep ==
    /\ result'.ticks = result.ticks + 1
          => /\ result.gameState = "PLAYING"
             /\ result'.timeLeft = result.timeLeft - 1
             /\ result'.timeLeft = 0
                   <=> result'.gameState = "GAME_OVER"
             /\ result'.timeLeft = 0 => result'.intervals = {}
    /\ probe'.call \in {"ended", "restartGame"} /\ result' # result
          => result'.intervals = {}

\* C39: at most one countdown timer is armed.  While the phase is PLAYING
\* timeLeft is within 0..60 and goes down by exactly 1 with every tick; the
\* tick that brings it to 0 moves the phase to GAME_OVER and cancels the
\* timer; after stopGame or restartGame no tick fires until the next
\* startGame.  With the ticks coming, every session reaches GAME_OVER, within
\* 60 ticks.
C39_Countdown ==
    /\ []CountdownInv
    /\ [][CountdownStep]_vars
    /\ (result.gameState = "PLAYING") ~> (result.gameState = "GAME_OVER")

\* the sixtieth tick has ended a game
C39_Witness ==
    /\ probe.call = "tick"
    /\ result.ticks = GAME_SECONDS
    /\ result.timeLeft = 0
    /\ result.gameState = "GAME_OVER"
    /\ result.intervals = {}


-----------------------------------------------------------------------------
(* The ids of the targets of a session *)

\* the targets of the schedule as CubeManager holds them in its cubes state
TargetList == [k \in DOMAIN Targets |-> [data |-> Targets[k], born |-> 0]]

\* a list without its k-th entry
Without(list, k) ==
    [j \in 1..(Len(list) - 1) |-> IF j < k THEN list[j] ELSE list[j + 1]]

\* C40: the ids of the targets generated between two calls of reset() are
\* pairwise distinct, so that removing a target by its id removes that target
\* and no other.
C40_DistinctIds ==
    called =>
        /\ \A j, k \in DOMAIN Targets :
              Targets[j].id = Targets[k].id => j = k
        /\ \A k \in DOMAIN Targets :
              removeCube(TargetList, Targets[k].id) = Without(TargetList, k)
        /\ result.generator.spawnId = Len(Targets)

\* single targets and pairs in turn: six ids, and one target removed
C40_Witness ==
    /\ called
    /\ Len(result.events) = 4
    /\ Len(result.events[1].cubes) = 1
    /\ Len(result.events[2].cubes) = 2
    /\ Len(result.events[3].cubes) = 1
    /\ Len(result.events[4].cubes) = 2
    /\ Len(removeCube(TargetList, Targets[4].id)) = 5

=============================================================================
